---- MODULE Spec2Model ----
(***************************************************************************)
(* ambit-mcp: tool registry, dispatch loop, tool handlers, fly CLI         *)
(* executor and the post-deploy audit, as a state machine.                 *)
(*                                                                         *)
(* One MCP server process runs in a fixed mode.  Every step of the model   *)
(* is one tool invocation handled to completion: the dispatch callback of  *)
(* main.ts, the handler of handlers.ts, every `fly` command the handler    *)
(* runs through exec.ts, and the effect of those commands on the platform. *)
(* The platform's answers (exit status, stdout shape, what a deploy        *)
(* attaches) are not decided by the program and are chosen freely.         *)
(***************************************************************************)
EXTENDS Integers, Sequences, FiniteSets, TLC

VARIABLES
  mode,    \* "safe" or "unsafe", fixed at startup (main.ts)
  config,  \* what loadConfig() reads from ~/.config/ambit/config.json
  ips,     \* platform: the addresses bound to each app
  pc,      \* "idle": waiting for a call; "done": a call has been handled
  op,      \* the tool name of the call being answered
  args,    \* its input
  cmds,    \* the `fly` argument vectors it ran, in order
  exits,   \* exits[k]: cmds[k] exited 0
  result,  \* the CallToolResult it returns
  audit,   \* whether auditDeploy ran, the list it decoded, how `config show`
           \* ended, the result it returned
  pre,     \* the platform's addresses when the call started
  flyToml, \* the fly.toml in the server's working directory during a deploy
           \* (used when the working directory matters)
  calls    \* the callbacks that have been invoked and have not returned yet,
           \* each with the locals of its handler (used when calls overlap)

vars == <<mode, config, ips, pc, op, args, cmds, exits, result, audit, pre, flyToml, calls>>

(***************************************************************************)
(* Bounds                                                                  *)
(***************************************************************************)
\* addresses the platform can bind to an app are numbered 1..MaxAddr
MaxAddr == 3
\* longest `command` array passed to fly_machine_exec
MaxCommandLen == 2

(***************************************************************************)
(* Small helpers                                                           *)
(***************************************************************************)
Range(s) == {s[i] : i \in 1..Len(s)}

\* JS `obj.f !== undefined`
Has(a, f) == f \in DOMAIN a

\* JS truthiness of an optional string input (undefined and "" are falsy)
TruthyStr(a, f) == Has(a, f) /\ a[f] # ""

\* JS truthiness of an optional boolean input
TruthyBool(a, f) == Has(a, f) /\ a[f] = TRUE

\* JS null and undefined as values of a field that otherwise holds a string
null == "<null>"
undefined == "<undefined>"

\* JS `x ?? d`
Nullish(x, d) == IF x \in {null, undefined} THEN d ELSE x

(***************************************************************************)
(* App names.  startsWith works on the spelling of the name.               *)
(***************************************************************************)
Spelling ==
  [n \in {"my-app", "ambit-router", "ambit", "flyroute-typo"} |->
     CASE n = "my-app"        -> <<"m","y","-","a","p","p">>
       [] n = "ambit-router"  -> <<"a","m","b","i","t","-","r","o","u","t","e","r">>
       [] n = "ambit"         -> <<"a","m","b","i","t">>
       [] n = "flyroute-typo" -> <<"f","l","y","r","o","u","t","e","-","t","y","p","o">>]

AmbitPrefix == <<"a","m","b","i","t","-">>

startsWith(name, prefix) ==
  /\ Len(Spelling[name]) >= Len(prefix)
  /\ SubSeq(Spelling[name], 1, Len(prefix)) = prefix

\* apps that exist on the platform, and the names a caller may pass
PlatformApps == {"my-app", "ambit-router"}
AppNames == {"my-app", "ambit-router"}

(***************************************************************************)
(* Platform addresses                                                      *)
(***************************************************************************)
Addrs == 1..MaxAddr

AddrText ==
  <<"203.0.113.1", "fdaa:0:18::2", "2a09:8280:1::3", "fdaa:0:18::4",
    "66.241.124.5", "fdaa:0:18::6">>

\* the Type the platform reports for an address in `fly ips list --json`
AddrType(a) ==
  IF a % 2 = 0 THEN "private_v6"
  ELSE IF a % 4 = 1 THEN "v4" ELSE "v6"

\* the Network the platform reports; the field is absent for some addresses
AddrNetwork(a) == IF a % 4 = 2 THEN "browsers" ELSE undefined

\* one element of the decoded `fly ips list --json` array (FlyIpSchema)
FlyIp(a) == [Address |-> AddrText[a], Type |-> AddrType(a), Network |-> AddrNetwork(a)]

AddrOfText(t) == CHOOSE a \in 1..Len(AddrText) : AddrText[a] = t

RECURSIVE SetToSeq(_)
\* the platform lists addresses in ascending order of their number
SetToSeq(S) ==
  IF S = {} THEN <<>>
  ELSE LET m == CHOOSE x \in S : \A y \in S : x <= y
       IN <<m>> \o SetToSeq(S \ {m})

FlyIpList(S) == [i \in 1..Cardinality(S) |-> FlyIp(SetToSeq(S)[i])]

(***************************************************************************)
(* Tool registry (tools.ts)                                                *)
(***************************************************************************)
Modes == {"safe", "unsafe"}

common ==
  {"fly_auth_status", "fly_app_status", "fly_machine_list", "fly_machine_start",
   "fly_machine_stop", "fly_machine_destroy", "fly_machine_exec", "fly_ip_list",
   "fly_ip_release", "fly_secrets_list", "fly_secrets_set", "fly_secrets_unset",
   "fly_scale_show", "fly_scale_count", "fly_scale_vm", "fly_volumes_list",
   "fly_volumes_create", "fly_volumes_destroy", "fly_config_show", "fly_logs"}

appListTool(m) == {"fly_app_list"}
appCreateTool(m) == {"fly_app_create"}
appDestroyTool(m) == {"fly_app_destroy"}
deployTool(m) == {"fly_deploy"}

ipAllocateTools(m) ==
  IF m = "safe" THEN {"fly_ip_allocate_flycast"}
  ELSE {"fly_ip_allocate_v6", "fly_ip_allocate_v4"}

safeOnly ==
  {"router_list", "router_status", "router_deploy", "router_destroy",
   "router_doctor", "router_logs"}

unsafeOnly == {"fly_certs_list", "fly_certs_add", "fly_certs_remove", "fly_ip_allocate"}

\* the names of the tool map that buildTools(mode) returns
buildTools(m) ==
  common \cup appListTool(m) \cup appCreateTool(m) \cup appDestroyTool(m)
    \cup deployTool(m) \cup ipAllocateTools(m)
    \cup (IF m = "safe" THEN safeOnly ELSE unsafeOnly)

\* annotations that mark fly_deploy destructive in unsafe mode
annotationsDeployDiffers(m, name) ==
  CASE name = "fly_deploy" /\ m = "unsafe"
         -> [readOnlyHint |-> FALSE, destructiveHint |-> TRUE]
    [] name \in {"fly_auth_status", "fly_app_status", "fly_machine_list", "fly_machine_exec",
                 "fly_ip_list", "fly_secrets_list", "fly_scale_show", "fly_volumes_list",
                 "fly_config_show", "fly_logs", "fly_app_list", "router_list",
                 "router_status", "router_doctor", "router_logs", "fly_certs_list"}
         -> [readOnlyHint |-> TRUE, destructiveHint |-> FALSE]
    [] name \in {"fly_machine_destroy", "fly_ip_release", "fly_volumes_destroy",
                 "fly_app_destroy", "router_destroy", "fly_certs_remove"}
         -> [readOnlyHint |-> FALSE, destructiveHint |-> TRUE]
    [] OTHER -> [readOnlyHint |-> FALSE, destructiveHint |-> FALSE]

\* the annotations of a tool of buildTools(mode): ...readOnly, ...mutation or
\* ...destructive
annotations(m, name) ==
  CASE name \in {"fly_auth_status", "fly_app_status", "fly_machine_list", "fly_machine_exec",
                 "fly_ip_list", "fly_secrets_list", "fly_scale_show", "fly_volumes_list",
                 "fly_config_show", "fly_logs", "fly_app_list", "router_list",
                 "router_status", "router_doctor", "router_logs", "fly_certs_list"}
         -> [readOnlyHint |-> TRUE, destructiveHint |-> FALSE]
    [] name \in {"fly_machine_destroy", "fly_ip_release", "fly_volumes_destroy",
                 "fly_app_destroy", "router_destroy", "fly_certs_remove"}
         -> [readOnlyHint |-> FALSE, destructiveHint |-> TRUE]
    [] OTHER -> [readOnlyHint |-> FALSE, destructiveHint |-> FALSE]

\* Output schemas.  A zod object is [fields |-> ..., nested |-> ...]: each field
\* with the zod type it is declared with, and for a z.array(z.object(...)) or
\* z.object(...) field the object schema of its elements under `nested`.
machineOutput ==
  [fields |-> [id |-> "z.string()", name |-> "z.string().optional()",
               state |-> "z.string()", region |-> "z.string()",
               private_ip |-> "z.string().optional()"]]

ipOutput ==
  [fields |-> [address |-> "z.string()", type |-> "z.string()",
               region |-> "z.string().optional()", network |-> "z.string().optional()",
               created_at |-> "z.string().optional()"]]

logEntryOutput ==
  [fields |-> [timestamp |-> "z.string()", level |-> "z.string().optional()",
               message |-> "z.string()", region |-> "z.string().optional()",
               instance |-> "z.string().optional()"]]

\* the outputSchema of a tool of buildTools(mode)
outputSchema(m, name) ==
  CASE name = "fly_auth_status" ->
         [fields |-> [authenticated |-> "z.boolean()", email |-> "z.string().optional()"]]
    [] name = "fly_app_status" ->
         [fields |-> [id |-> "z.string()", name |-> "z.string()", status |-> "z.string()",
                      deployed |-> "z.boolean()", hostname |-> "z.string()",
                      machines |-> "z.array(z.object)"],
          nested |-> [machines |-> machineOutput]]
    [] name = "fly_machine_list" ->
         [fields |-> [machines |-> "z.array(z.object)"],
          nested |-> [machines |->
            [fields |-> [id |-> "z.string()", name |-> "z.string().optional()",
                         state |-> "z.string()", region |-> "z.string()",
                         private_ip |-> "z.string().optional()",
                         cpu_kind |-> "z.string().optional()",
                         cpus |-> "z.number().optional()",
                         memory_mb |-> "z.number().optional()"]]]]
    [] name \in {"fly_machine_start", "fly_machine_stop", "fly_machine_destroy"} ->
         [fields |-> [ok |-> "z.boolean()", machine_id |-> "z.string()"]]
    [] name = "fly_machine_exec" ->
         [fields |-> [stdout |-> "z.string()", stderr |-> "z.string()",
                      exit_code |-> "z.number()"]]
    [] name = "fly_ip_list" ->
         [fields |-> [ips |-> "z.array(z.object)"], nested |-> [ips |-> ipOutput]]
    [] name = "fly_ip_release" ->
         [fields |-> [ok |-> "z.boolean()", address |-> "z.string()"]]
    [] name = "fly_secrets_list" ->
         [fields |-> [secrets |-> "z.array(z.object)"],
          nested |-> [secrets |->
            [fields |-> [name |-> "z.string()", digest |-> "z.string()",
                         created_at |-> "z.string()"]]]]
    [] name \in {"fly_secrets_set", "fly_secrets_unset"} ->
         [fields |-> [ok |-> "z.boolean()", count |-> "z.number()"]]
    [] name = "fly_scale_show" ->
         [fields |-> [processes |-> "z.array(z.object)"],
          nested |-> [processes |->
            [fields |-> [name |-> "z.string()", count |-> "z.number()",
                         cpu_kind |-> "z.string()", cpus |-> "z.number()",
                         memory_mb |-> "z.number()",
                         regions |-> "z.record().optional()"]]]]
    [] name \in {"fly_scale_count", "fly_scale_vm"} -> [fields |-> [ok |-> "z.boolean()"]]
    [] name = "fly_volumes_list" ->
         [fields |-> [volumes |-> "z.array(z.object)"],
          nested |-> [volumes |->
            [fields |-> [id |-> "z.string()", name |-> "z.string()", state |-> "z.string()",
                         size_gb |-> "z.number()", region |-> "z.string()",
                         encrypted |-> "z.boolean()",
                         attached_machine_id |-> "z.string().nullable().optional()"]]]]
    [] name = "fly_volumes_create" ->
         [fields |-> [id |-> "z.string()", name |-> "z.string()", size_gb |-> "z.number()",
                      region |-> "z.string()"]]
    [] name = "fly_volumes_destroy" ->
         [fields |-> [ok |-> "z.boolean()", volume_id |-> "z.string()"]]
    [] name = "fly_config_show" -> [fields |-> [config |-> "z.record()"]]
    [] name \in {"fly_logs", "router_logs"} ->
         [fields |-> [entries |-> "z.array(z.object)"], nested |-> [entries |-> logEntryOutput]]
    [] name = "fly_app_list" ->
         [fields |-> [apps |-> "z.array(z.object)"],
          nested |-> [apps |->
            [fields |-> [name |-> "z.string()", status |-> "z.string()",
                         deployed |-> "z.boolean()", hostname |-> "z.string()",
                         org |-> "z.string()"]]]]
    [] name = "fly_app_create" ->
         [fields |-> [name |-> "z.string()",
                      network |-> IF m = "safe" THEN "z.string()" ELSE "z.string().optional()",
                      org |-> "z.string()"]]
    [] name = "fly_app_destroy" -> [fields |-> [ok |-> "z.boolean()", app |-> "z.string()"]]
    [] name = "fly_deploy" ->
         IF m = "safe"
         THEN [fields |-> [ok |-> "z.boolean()", audit |-> "z.object"],
               nested |-> [audit |->
                 [fields |-> [public_ips_released |-> "z.number()",
                              flycast_allocations |-> "z.array(z.object)",
                              warnings |-> "z.array(z.string())"],
                  nested |-> [flycast_allocations |->
                    [fields |-> [address |-> "z.string()", network |-> "z.string()"]]]]]]
         ELSE [fields |-> [ok |-> "z.boolean()"]]
    [] name = "fly_ip_allocate_flycast" ->
         [fields |-> [address |-> "z.string()", type |-> "z.string()",
                      network |-> "z.string()"]]
    [] name \in {"fly_ip_allocate_v6", "fly_ip_allocate_v4"} ->
         [fields |-> [address |-> "z.string()", type |-> "z.string()",
                      region |-> "z.string().optional()",
                      network |-> "z.string().optional()"]]
    [] name = "router_list" ->
         [fields |-> [routers |-> "z.array(z.object)"],
          nested |-> [routers |->
            [fields |-> [network |-> "z.string()", app_name |-> "z.string()",
                         region |-> "z.string().optional()",
                         machine_state |-> "z.string().optional()",
                         private_ip |-> "z.string().optional()",
                         subnet |-> "z.string().optional()"]]]]
    [] name = "router_status" ->
         [fields |-> [network |-> "z.string()", app_name |-> "z.string()",
                      region |-> "z.string().optional()",
                      machine_state |-> "z.string().optional()",
                      private_ip |-> "z.string().optional()",
                      subnet |-> "z.string().optional()", tag |-> "z.string().optional()"]]
    [] name = "router_deploy" ->
         [fields |-> [network |-> "z.string()", app_name |-> "z.string()",
                      tag |-> "z.string().optional()", subnet |-> "z.string().optional()"]]
    [] name = "router_destroy" ->
         [fields |-> [ok |-> "z.boolean()", network |-> "z.string()"]]
    [] name = "router_doctor" ->
         [fields |-> [checks |-> "z.array(z.object)", healthy |-> "z.boolean()"],
          nested |-> [checks |->
            [fields |-> [name |-> "z.string()", passed |-> "z.boolean()",
                         hint |-> "z.string().optional()"]]]]
    [] name = "fly_certs_list" ->
         [fields |-> [certificates |-> "z.array(z.object)"],
          nested |-> [certificates |->
            [fields |-> [hostname |-> "z.string()", created_at |-> "z.string().optional()"]]]]
    [] name = "fly_certs_add" -> [fields |-> [hostname |-> "z.string()"]]
    [] name = "fly_certs_remove" ->
         [fields |-> [ok |-> "z.boolean()", hostname |-> "z.string()"]]
    [] name = "fly_ip_allocate" ->
         [fields |-> [ips |-> "z.array(z.object)"],
          nested |-> [ips |-> [fields |-> [address |-> "z.string()", type |-> "z.string()"]]]]

\* createHandlers without the safe-mode entry fly_ip_allocate_flycast
createHandlersNoFlycast(m) ==
  {"fly_auth_status", "fly_app_status", "fly_app_list", "fly_app_create",
   "fly_app_destroy", "fly_machine_list", "fly_machine_start", "fly_machine_stop",
   "fly_machine_destroy", "fly_machine_exec", "fly_ip_list", "fly_ip_release",
   "fly_secrets_list", "fly_secrets_set", "fly_secrets_unset", "fly_scale_show",
   "fly_scale_count", "fly_scale_vm", "fly_volumes_list", "fly_volumes_create",
   "fly_volumes_destroy", "fly_config_show", "fly_logs", "fly_deploy"}
  \cup (IF m = "safe"
        THEN {"router_list", "router_status",
              "router_deploy", "router_destroy", "router_doctor", "router_logs"}
        ELSE {"fly_ip_allocate_v6", "fly_ip_allocate_v4", "fly_ip_allocate",
              "fly_certs_list", "fly_certs_add", "fly_certs_remove"})

\* the keys of the handler map that createHandlers(mode) returns
createHandlers(m) ==
  {"fly_auth_status", "fly_app_status", "fly_app_list", "fly_app_create",
   "fly_app_destroy", "fly_machine_list", "fly_machine_start", "fly_machine_stop",
   "fly_machine_destroy", "fly_machine_exec", "fly_ip_list", "fly_ip_release",
   "fly_secrets_list", "fly_secrets_set", "fly_secrets_unset", "fly_scale_show",
   "fly_scale_count", "fly_scale_vm", "fly_volumes_list", "fly_volumes_create",
   "fly_volumes_destroy", "fly_config_show", "fly_logs", "fly_deploy"}
  \cup (IF m = "safe"
        THEN {"fly_ip_allocate_flycast", "router_list", "router_status",
              "router_deploy", "router_destroy", "router_doctor", "router_logs"}
        ELSE {"fly_ip_allocate_v6", "fly_ip_allocate_v4", "fly_ip_allocate",
              "fly_certs_list", "fly_certs_add", "fly_certs_remove"})

\* every name of either mode, and one name that is no tool at all
ToolNames == buildTools("safe") \cup buildTools("unsafe")
UnknownNames == {"fly_run"}

\* the required keys of a tool's inputSchema (z.string() etc. without .optional())
RequiredInputs(m, name) ==
  CASE name \in {"fly_auth_status", "fly_app_list", "router_list", "router_doctor"} -> {}
    [] name \in {"fly_machine_start", "fly_machine_stop", "fly_machine_destroy"}
         -> {"app", "machine_id"}
    [] name = "fly_machine_exec" -> {"app", "machine_id", "command"}
    [] name = "fly_ip_release" -> {"app", "address"}
    [] name = "fly_secrets_set" -> {"app", "secrets"}
    [] name = "fly_secrets_unset" -> {"app", "keys"}
    [] name = "fly_scale_count" -> {"app", "count"}
    [] name = "fly_scale_vm" -> {"app", "size"}
    [] name = "fly_volumes_create" -> {"app", "region"}
    [] name = "fly_volumes_destroy" -> {"app", "volume_id", "confirm"}
    [] name = "fly_app_create" -> {"name"}
    [] name = "fly_ip_allocate_flycast" -> {"app", "network"}
    [] name \in {"fly_certs_add", "fly_certs_remove"} -> {"app", "hostname"}
    [] name \in {"router_status", "router_deploy", "router_destroy", "router_logs"}
         -> {"network"}
    [] OTHER -> {"app"}

\* the optional keys of a tool's inputSchema
OptionalInputs(m, name) ==
  CASE name \in {"fly_app_list", "router_list", "router_status", "router_destroy",
                 "router_logs"} -> {"org"}
    [] name = "router_doctor" -> {"network", "org"}
    [] name = "router_deploy" -> {"org", "region", "self_approve"}
    [] name = "fly_machine_destroy" -> {"force"}
    [] name = "fly_secrets_set" -> {"stage"}
    [] name = "fly_scale_count" -> {"region", "process_group"}
    [] name = "fly_scale_vm" -> {"memory"}
    [] name = "fly_volumes_create" -> {"name", "size_gb"}
    [] name = "fly_logs" -> {"region", "machine"}
    [] name = "fly_app_create" -> IF m = "safe" THEN {"org"} ELSE {"org", "network"}
    [] name = "fly_deploy"
         -> {"image", "dockerfile", "region", "strategy", "env", "build_args"}
              \cup (IF m = "safe" THEN {} ELSE {"no_public_ips", "flycast", "ha"})
    [] name = "fly_ip_allocate_v6" -> {"private", "network", "region", "org"}
    [] name = "fly_ip_allocate_v4" -> {"shared", "region"}
    [] name = "fly_ip_allocate" -> {"region"}
    [] OTHER -> {}

\* the input the handler receives: zod objects validate the required keys and
\* strip keys that the schema does not declare
ValidInput(m, name, a) == RequiredInputs(m, name) \subseteq DOMAIN a

ParsedInput(m, name, a) ==
  [f \in DOMAIN a \cap (RequiredInputs(m, name) \cup OptionalInputs(m, name)) |-> a[f]]

(***************************************************************************)
(* Results (handlers.ts ok / err) and handler outcomes                     *)
(***************************************************************************)
\* no audit ran in this call
NoAudit == [ran |-> FALSE, decoded |-> FALSE, returned |-> FALSE]

ok(text, data) == [isError |-> FALSE, text |-> text, data |-> data]

err(text) == [isError |-> TRUE, text |-> text]

\* what a handler did: the commands it ran with their exit status, the
\* platform's addresses afterwards, what the audit saw and returned, and how
\* the handler ended (a returned CallToolResult, or a thrown Error)
Returned(c, e, i, au, r) ==
  [cmds |-> c, exits |-> e, ips |-> i, audit |-> au, threw |-> FALSE, value |-> r]

Threw(c, e, i, au, msg) ==
  [cmds |-> c, exits |-> e, ips |-> i, audit |-> au, threw |-> TRUE, msg |-> msg]

\* the Error that execJson / execNdjson throw when the command exits nonzero,
\* `fly ${args[0]} failed (exit N): ...`, and the one that JSON.parse or
\* schema.parse throw on stdout they cannot decode
ExecFailed(c) == <<"fly command failed", c[1]>>

ParseFailed == <<"stdout is not the expected JSON">>

\* execJson(c, schema), then `res` returned by the handler
execJson(c, i, oc, res) ==
  IF oc.out = "fail" THEN Threw(<<c>>, <<FALSE>>, i, NoAudit, ExecFailed(c))
  ELSE IF oc.out = "malformed" THEN Threw(<<c>>, <<TRUE>>, i, NoAudit, ParseFailed)
  ELSE Returned(<<c>>, <<TRUE>>, i, NoAudit, res)

\* assertNotRouter(app) throws
IsRouterApp(app) == startsWith(app, AmbitPrefix)

\* guardThrows that also matches a name without the hyphen of the prefix
guardThrowsLoose(m, app) == m = "safe" /\ startsWith(app, <<"a", "m", "b", "i", "t">>)

\* guardThrows without the test of the mode
guardThrowsAnyMode(m, app) == IsRouterApp(app)

\* guard(app) of createHandlers throws
guardThrows(m, app) == m = "safe" /\ IsRouterApp(app)

GuardMsg == <<"Cannot operate on ambit infrastructure apps (ambit-* prefix).">>

(***************************************************************************)
(* Post-deploy audit (guard.ts auditDeploy)                                *)
(***************************************************************************)
\* the platform's side of a command: the app that `-a <app>` names
AppOf(cmd) == cmd[(CHOOSE k \in 1..Len(cmd) : cmd[k] = "-a") + 1]

\* the platform's side of `ips release <address> -a <app>` that exits 0: the
\* address is no longer bound to the app
AfterRelease(i, cmd) ==
  IF AppOf(cmd) \in DOMAIN i /\ cmd[3] \in Range(AddrText)
  THEN [i EXCEPT ![AppOf(cmd)] = @ \ {AddrOfText(cmd[3])}] ELSE i

IpsListCmd(app) == <<"ips", "list", "-a", app, "--json">>

\* IpsReleaseCmd with the address and the app in each other's place
IpsReleaseSwapped(address, app) == <<"ips", "release", app, "-a", address, "--yes">>

IpsReleaseCmd(address, app) == <<"ips", "release", address, "-a", app, "--yes">>

ConfigShowCmd(app) == <<"config", "show", "-a", app>>

\* IsFlycast that takes every IPv6 address for a Flycast address
IsFlycastAnyV6(ip) == ip.Type \in {"private_v6", "v6"}

\* `ip.Type === "private_v6"`
IsFlycast(ip) == ip.Type = "private_v6"

\* `ip.Network || "default"`
NetworkOrDefault(ip) ==
  IF ip.Network \notin {undefined, null, ""} THEN ip.Network ELSE "default"

RECURSIVE AuditLoop(_, _, _, _, _)
\* Phase 1, the loop over the decoded list.  acc carries the commands run so
\* far, the platform's addresses, and the audit result under construction.
\* The ExecResult of `ips release` is discarded by the code: the counter is
\* incremented whether or not the release exited 0.
AuditLoop(app, list, k, relFail, acc) ==
  IF k > Len(list) THEN acc
  ELSE LET ip == list[k] IN
    IF IsFlycast(ip)
    THEN AuditLoop(app, list, k + 1, relFail,
           [acc EXCEPT !.flycast_allocations =
              Append(@, [address |-> ip.Address, network |-> NetworkOrDefault(ip)])])
    ELSE LET c == IpsReleaseCmd(ip.Address, app)
             released == AddrOfText(ip.Address) \notin relFail
         IN AuditLoop(app, list, k + 1, relFail,
              [acc EXCEPT !.cmds = Append(@, c),
                          !.exits = Append(@, released),
                          !.ips = IF released THEN AfterRelease(@, c) ELSE @,
                          !.public_ips_released = @ + 1])

\* `parsed.services?.length > 0` and the .some(...) over services and ports
hasTlsHandler(parsed) ==
  /\ Has(parsed, "services")
  /\ Len(parsed.services) > 0
  /\ \E s \in 1..Len(parsed.services) :
       /\ Has(parsed.services[s], "ports")
       /\ \E q \in 1..Len(parsed.services[s].ports) :
            LET pt == parsed.services[s].ports[q] IN
              /\ Has(pt, "handlers") /\ "tls" \in Range(pt.handlers)
              /\ Has(pt, "port") /\ pt.port = 443

\* `parsed.http_service?.force_https`
forceHttps(parsed) ==
  /\ Has(parsed, "http_service")
  /\ Has(parsed.http_service, "force_https")
  /\ parsed.http_service.force_https = TRUE

\* ConfigWarnings with the force_https check as the else-branch of the TLS check
ConfigWarningsElseIf(cfg) ==
  IF cfg.success /\ cfg.stdout # "empty"
  THEN IF cfg.stdout = "notjson" THEN <<"Could not inspect merged config.">>
       ELSE IF hasTlsHandler(cfg.parsed) THEN <<"Service config has TLS handler on port 443.">>
       ELSE IF forceHttps(cfg.parsed) THEN <<"http_service.force_https is enabled.">>
       ELSE <<>>
  ELSE <<>>

\* Phase 2: the warnings that config inspection appends
ConfigWarnings(cfg) ==
  IF cfg.success /\ cfg.stdout # "empty"
  THEN IF cfg.stdout = "notjson" THEN <<"Could not inspect merged config.">>
       ELSE (IF hasTlsHandler(cfg.parsed) THEN <<"Service config has TLS handler on port 443.">> ELSE <<>>)
            \o (IF forceHttps(cfg.parsed) THEN <<"http_service.force_https is enabled.">> ELSE <<>>)
  ELSE <<>>

\* auditDeploy that reads `config show` the way it reads `ips list`: a
\* nonzero exit or undecodable output ends the audit with a thrown Error
auditDeployStrict(app, i, oc) ==
  IF oc.list # "ok"
  THEN [threw |-> TRUE, cmds |-> <<IpsListCmd(app)>>, exits |-> <<oc.list # "fail">>,
        ips |-> i, audit |-> [ran |-> TRUE, decoded |-> FALSE, returned |-> FALSE],
        msg |-> IF oc.list = "fail" THEN ExecFailed(IpsListCmd(app)) ELSE ParseFailed]
  ELSE
    LET list == FlyIpList(IF app \in DOMAIN i THEN i[app] ELSE {})
        p1 == AuditLoop(app, list, 1, oc.relFail,
                [cmds |-> <<IpsListCmd(app)>>, exits |-> <<TRUE>>, ips |-> i,
                 public_ips_released |-> 0, flycast_allocations |-> <<>>])
        w2 == ConfigWarnings(oc.cfg)
        w3 == IF Len(p1.flycast_allocations) = 0 THEN <<"No Flycast IP allocated.">> ELSE <<>>
        res == [public_ips_released |-> p1.public_ips_released,
                flycast_allocations |-> p1.flycast_allocations,
                warnings |-> w2 \o w3]
    IN IF oc.cfg.success /\ oc.cfg.stdout = "json"
       THEN [threw |-> FALSE,
             cmds |-> Append(p1.cmds, ConfigShowCmd(app)),
             exits |-> Append(p1.exits, oc.cfg.success),
             ips |-> p1.ips,
             audit |-> [ran |-> TRUE, decoded |-> TRUE, returned |-> TRUE, list |-> list,
                        shown |-> oc.cfg, result |-> res]]
       ELSE [threw |-> TRUE,
             cmds |-> Append(p1.cmds, ConfigShowCmd(app)),
             exits |-> Append(p1.exits, oc.cfg.success),
             ips |-> p1.ips,
             audit |-> [ran |-> TRUE, decoded |-> TRUE, returned |-> FALSE, list |-> list,
                        shown |-> oc.cfg, result |-> res],
             msg |-> IF oc.cfg.success THEN ParseFailed ELSE ExecFailed(ConfigShowCmd(app))]

\* auditDeploy(app), run when the platform's addresses are i.
\* oc.list: how `ips list` ended; oc.relFail: the addresses whose release
\* exits nonzero; oc.cfg: how `config show` ended.
auditDeploy(app, i, oc) ==
  IF oc.list # "ok"
  THEN [threw |-> TRUE, cmds |-> <<IpsListCmd(app)>>, exits |-> <<oc.list # "fail">>,
        ips |-> i, audit |-> [ran |-> TRUE, decoded |-> FALSE, returned |-> FALSE],
        msg |-> IF oc.list = "fail" THEN ExecFailed(IpsListCmd(app)) ELSE ParseFailed]
  ELSE
    LET list == FlyIpList(IF app \in DOMAIN i THEN i[app] ELSE {})
        p1 == AuditLoop(app, list, 1, oc.relFail,
                [cmds |-> <<IpsListCmd(app)>>, exits |-> <<TRUE>>, ips |-> i,
                 public_ips_released |-> 0, flycast_allocations |-> <<>>])
        w2 == ConfigWarnings(oc.cfg)
        w3 == IF Len(p1.flycast_allocations) = 0 THEN <<"No Flycast IP allocated.">> ELSE <<>>
    IN [threw |-> FALSE,
        cmds |-> Append(p1.cmds, ConfigShowCmd(app)),
        exits |-> Append(p1.exits, oc.cfg.success),
        ips |-> p1.ips,
        audit |-> [ran |-> TRUE, decoded |-> TRUE, returned |-> TRUE, list |-> list,
                   shown |-> oc.cfg,
                   result |-> [public_ips_released |-> p1.public_ips_released,
                               flycast_allocations |-> p1.flycast_allocations,
                               warnings |-> w2 \o w3]]]

(***************************************************************************)
(* Pre-flight config scanner (design.md, scanFlyToml).  The listing is the *)
(* only definition of the scanner: no module of the server declares,       *)
(* imports or calls it.                                                    *)
(***************************************************************************)
ServicesError == "[[services]] port 443 with TLS handler"

ForceHttpsError == "[http_service].force_https = true"

ServicesWarning == "[[services]] block present"

\* `config.services || []` and `svc.ports || []`
ServicesOf(toml) == IF Has(toml, "services") THEN toml.services ELSE <<>>

PortsOf(svc) == IF Has(svc, "ports") THEN svc.ports ELSE <<>>

RECURSIVE ScanPorts(_, _)
\* the inner loop: one error pushed per port entry with port 443 and "tls"
ScanPorts(ports, q) ==
  IF q > Len(ports) THEN <<>>
  ELSE (IF /\ Has(ports[q], "port") /\ ports[q].port = 443
           /\ Has(ports[q], "handlers") /\ "tls" \in Range(ports[q].handlers)
        THEN <<ServicesError>> ELSE <<>>)
       \o ScanPorts(ports, q + 1)

RECURSIVE ScanServices(_, _)
\* the outer loop over the services
ScanServices(services, s) ==
  IF s > Len(services) THEN <<>>
  ELSE ScanPorts(PortsOf(services[s]), 1) \o ScanServices(services, s + 1)

\* scanFlyToml that stops at the first error it finds
scanFlyTomlFirstError(toml) ==
  LET all == (IF forceHttps(toml) THEN <<ForceHttpsError>> ELSE <<>>)
             \o ScanServices(ServicesOf(toml), 1)
      errors == IF all = <<>> THEN <<>> ELSE <<Head(all)>>
  IN [ok |-> errors = <<>>, errors |-> errors,
      warnings |-> IF Len(ServicesOf(toml)) > 0 THEN <<ServicesWarning>> ELSE <<>>]

\* scanFlyToml(tomlContent), on the parsed content
scanFlyToml(toml) ==
  LET errors == (IF forceHttps(toml) THEN <<ForceHttpsError>> ELSE <<>>)
                \o ScanServices(ServicesOf(toml), 1)
  IN [ok |-> errors = <<>>, errors |-> errors,
      warnings |-> IF Len(ServicesOf(toml)) > 0 THEN <<ServicesWarning>> ELSE <<>>]

(***************************************************************************)
(* Deploy (handlers.ts fly_deploy_safe / fly_deploy_unsafe)                *)
(***************************************************************************)
\* the optional arguments that both deploy handlers append in the same way
\* (image, dockerfile, region, strategy) and (env, build_args).  An env or
\* build_args input is the sequence of its <<key, value>> entries.
DeployOptsA(a) ==
  (IF TruthyStr(a, "image") THEN <<"--image", a.image>> ELSE <<>>)
  \o (IF TruthyStr(a, "dockerfile") THEN <<"--dockerfile", a.dockerfile>> ELSE <<>>)
  \o (IF TruthyStr(a, "region") THEN <<"--primary-region", a.region>> ELSE <<>>)
  \o (IF TruthyStr(a, "strategy") THEN <<"--strategy", a.strategy>> ELSE <<>>)

\* `${k}=${v}` for the keys and values that inputs use
KeyValue(kv) ==
  CASE kv = <<"LOG", "debug">> -> "LOG=debug"
    [] kv = <<"A", "--no-public-ips">> -> "A=--no-public-ips"
    [] kv = <<"V", "1">> -> "V=1"
    [] kv = <<"DATABASE_URL", "postgres://db">> -> "DATABASE_URL=postgres://db"
    [] kv = <<"--port", "8080">> -> "--port=8080"

RECURSIVE Pairs(_, _)
\* the loop over Object.entries(...): one `flag k=v` pair per entry
Pairs(flag, entries) ==
  IF entries = <<>> THEN <<>>
  ELSE <<flag, KeyValue(Head(entries))>> \o Pairs(flag, Tail(entries))

DeployOptsB(a) ==
  (IF Has(a, "env") THEN Pairs("-e", a.env) ELSE <<>>)
  \o (IF Has(a, "build_args") THEN Pairs("--build-arg", a.build_args) ELSE <<>>)

\* DeploySafeCmd without the enforced --flycast
DeploySafeCmdNoFlycast(a) ==
  <<"deploy", "-a", a.app, "--yes", "--no-public-ips">>
  \o DeployOptsA(a) \o DeployOptsB(a)

DeploySafeCmd(a) ==
  <<"deploy", "-a", a.app, "--yes", "--no-public-ips", "--flycast">>
  \o DeployOptsA(a) \o DeployOptsB(a)

DeployUnsafeCmd(a) ==
  <<"deploy", "-a", a.app, "--yes">>
  \o DeployOptsA(a)
  \o (IF TruthyBool(a, "no_public_ips") THEN <<"--no-public-ips">> ELSE <<>>)
  \o (IF TruthyBool(a, "flycast") THEN <<"--flycast">> ELSE <<>>)
  \o (IF Has(a, "ha") /\ a.ha = FALSE THEN <<"--ha=false">> ELSE <<>>)
  \o DeployOptsB(a)

\* the platform's side of a `fly deploy -a <app>` that exits 0: it may attach
\* addresses to the app
AfterDeploy(i, cmd, attached) ==
  IF AppOf(cmd) \in DOMAIN i THEN [i EXCEPT ![AppOf(cmd)] = @ \cup attached] ELSE i

\* DeployExposed that tolerates one released address
DeployExposedAboveOne(res) == res.public_ips_released > 1

\* `audit.public_ips_released > 0`
DeployExposed(res) == res.public_ips_released > 0

ExposureMsg(n) == <<"Deploy succeeded but public IP(s) were found and released", n>>

\* fly_deploy_safe that returns without the post-flight audit
fly_deploy_safe_unaudited(m, a, cfg, i, oc) ==
  IF guardThrows(m, a.app) THEN Threw(<<>>, <<>>, i, NoAudit, GuardMsg)
  ELSE IF ~oc.deployOk
  THEN Returned(<<DeploySafeCmd(a)>>, <<FALSE>>, i, NoAudit, err(<<"Deploy failed">>))
  ELSE Returned(<<DeploySafeCmd(a)>>, <<TRUE>>,
                AfterDeploy(i, DeploySafeCmd(a), oc.attached),
                NoAudit, ok(<<"Deployed">>, [ok |-> TRUE]))

\* fly_deploy_safe that runs the audit also after a deploy that exited nonzero
fly_deploy_safe_audit_always(m, a, cfg, i, oc) ==
  IF guardThrows(m, a.app) THEN Threw(<<>>, <<>>, i, NoAudit, GuardMsg)
  ELSE
    LET au == auditDeploy(a.app, AfterDeploy(i, DeploySafeCmd(a), oc.attached), oc)
        c == <<DeploySafeCmd(a)>> \o au.cmds
        e == <<oc.deployOk>> \o au.exits
    IN IF au.threw THEN Threw(c, e, au.ips, au.audit, au.msg)
       ELSE IF ~oc.deployOk
       THEN Returned(c, e, au.ips, au.audit, err(<<"Deploy failed">>))
       ELSE IF DeployExposed(au.audit.result)
       THEN Returned(c, e, au.ips, au.audit,
                     err(ExposureMsg(au.audit.result.public_ips_released)))
       ELSE Returned(c, e, au.ips, au.audit,
                     ok(<<"Deployed">>, [ok |-> TRUE, audit |-> au.audit.result]))

fly_deploy_safe(m, a, cfg, i, oc) ==
  IF guardThrows(m, a.app) THEN Threw(<<>>, <<>>, i, NoAudit, GuardMsg)
  ELSE IF ~oc.deployOk
  THEN Returned(<<DeploySafeCmd(a)>>, <<FALSE>>, i, NoAudit, err(<<"Deploy failed">>))
  ELSE
    LET au == auditDeploy(a.app, AfterDeploy(i, DeploySafeCmd(a), oc.attached), oc)
        c == <<DeploySafeCmd(a)>> \o au.cmds
        e == <<TRUE>> \o au.exits
    IN IF au.threw THEN Threw(c, e, au.ips, au.audit, au.msg)
       ELSE IF DeployExposed(au.audit.result)
       THEN Returned(c, e, au.ips, au.audit,
                     err(ExposureMsg(au.audit.result.public_ips_released)))
       ELSE Returned(c, e, au.ips, au.audit,
                     ok(<<"Deployed">>, [ok |-> TRUE, audit |-> au.audit.result]))

fly_deploy_unsafe(m, a, cfg, i, oc) ==
  IF ~oc.deployOk
  THEN Returned(<<DeployUnsafeCmd(a)>>, <<FALSE>>, i, NoAudit, err(<<"Deploy failed">>))
  ELSE Returned(<<DeployUnsafeCmd(a)>>, <<TRUE>>,
                AfterDeploy(i, DeployUnsafeCmd(a), oc.attached),
                NoAudit, ok(<<"Deployed">>, [ok |-> TRUE]))

(***************************************************************************)
(* Address tools (handlers.ts, IPs section)                                *)
(***************************************************************************)
\* the platform's side of an `ips allocate...  -a <app>` that exits 0: new
\* addresses are bound to the app
AfterAllocate(i, cmd, new) ==
  IF AppOf(cmd) \in DOMAIN i THEN [i EXCEPT ![AppOf(cmd)] = @ \cup new] ELSE i

\* the stdout of a successful allocation that printed JSON: the first address
AllocatedIp(new) == FlyIp(CHOOSE x \in new : \A y \in new : x <= y)

\* `result.stdout.trim()` of a stdout that is not the expected JSON
RawStdout == "raw stdout text"

fly_ip_list(m, a, cfg, i, oc) ==
  IF guardThrows(m, a.app) THEN Threw(<<>>, <<>>, i, NoAudit, GuardMsg)
  ELSE LET data == FlyIpList(IF a.app \in DOMAIN i THEN i[a.app] ELSE {})
       IN execJson(IpsListCmd(a.app), i, oc,
            ok(<<"IP(s)", Len(data)>>,
               [ips |-> [k \in 1..Len(data) |->
                           [address |-> data[k].Address, type |-> data[k].Type,
                            region |-> "", network |-> Nullish(data[k].Network, ""),
                            created_at |-> ""]]]))

fly_ip_release(m, a, cfg, i, oc) ==
  LET c == IpsReleaseCmd(a.address, a.app) IN
  IF guardThrows(m, a.app) THEN Threw(<<>>, <<>>, i, NoAudit, GuardMsg)
  ELSE IF oc.out = "fail"
  THEN Returned(<<c>>, <<FALSE>>, i, NoAudit, err(<<"Failed to release IP">>))
  ELSE Returned(<<c>>, <<TRUE>>, AfterRelease(i, c), NoAudit,
                ok(<<"Released">>, [ok |-> TRUE, address |-> a.address]))

\* IpAllocateFlycastCmd without --private
IpAllocateFlycastCmdPublic(a) ==
  <<"ips", "allocate-v6", "--network", a.network, "-a", a.app, "--json">>

IpAllocateFlycastCmd(a) ==
  <<"ips", "allocate-v6", "--private", "--network", a.network, "-a", a.app, "--json">>

fly_ip_allocate_flycast(m, a, cfg, i, oc) ==
  LET c == IpAllocateFlycastCmd(a) IN
  IF guardThrows(m, a.app) THEN Threw(<<>>, <<>>, i, NoAudit, GuardMsg)
  ELSE IF oc.out = "fail"
  THEN Returned(<<c>>, <<FALSE>>, i, NoAudit, err(<<"Failed to allocate Flycast IP">>))
  ELSE Returned(<<c>>, <<TRUE>>, AfterAllocate(i, c, oc.newAddrs), NoAudit,
         IF oc.out = "ok"
         THEN ok(<<"Allocated Flycast IP">>,
                 [address |-> AllocatedIp(oc.newAddrs).Address,
                  type |-> AllocatedIp(oc.newAddrs).Type, network |-> a.network])
         ELSE ok(<<"Allocated Flycast IP">>,
                 [address |-> RawStdout, type |-> "private_v6", network |-> a.network]))

IpAllocateV6Cmd(a) ==
  <<"ips", "allocate-v6", "-a", a.app, "--json">>
  \o (IF TruthyBool(a, "private") THEN <<"--private">> ELSE <<>>)
  \o (IF TruthyStr(a, "network") THEN <<"--network", a.network>> ELSE <<>>)
  \o (IF TruthyStr(a, "region") THEN <<"--region", a.region>> ELSE <<>>)
  \o (IF TruthyStr(a, "org") THEN <<"--org", a.org>> ELSE <<>>)

fly_ip_allocate_v6(m, a, cfg, i, oc) ==
  LET c == IpAllocateV6Cmd(a) IN
  IF oc.out = "fail"
  THEN Returned(<<c>>, <<FALSE>>, i, NoAudit, err(<<"Failed to allocate IPv6">>))
  ELSE Returned(<<c>>, <<TRUE>>, AfterAllocate(i, c, oc.newAddrs), NoAudit,
         IF oc.out = "ok"
         THEN ok(<<"Allocated">>,
                 [address |-> AllocatedIp(oc.newAddrs).Address,
                  type |-> AllocatedIp(oc.newAddrs).Type,
                  region |-> null, network |-> Nullish(AllocatedIp(oc.newAddrs).Network, null)])
         ELSE ok(<<"Allocated IPv6">>,
                 [address |-> RawStdout,
                  type |-> IF TruthyBool(a, "private") THEN "private_v6" ELSE "v6",
                  region |-> null,
                  network |-> IF Has(a, "network") THEN a.network ELSE null]))

IpAllocateV4Cmd(a) ==
  <<"ips", "allocate-v4", "-a", a.app, "--json">>
  \o (IF TruthyBool(a, "shared") THEN <<"--shared">> ELSE <<>>)
  \o (IF TruthyStr(a, "region") THEN <<"--region", a.region>> ELSE <<>>)

fly_ip_allocate_v4(m, a, cfg, i, oc) ==
  LET c == IpAllocateV4Cmd(a) IN
  IF oc.out = "fail"
  THEN Returned(<<c>>, <<FALSE>>, i, NoAudit, err(<<"Failed to allocate IPv4">>))
  ELSE Returned(<<c>>, <<TRUE>>, AfterAllocate(i, c, oc.newAddrs), NoAudit,
         IF oc.out = "ok"
         THEN ok(<<"Allocated">>,
                 [address |-> AllocatedIp(oc.newAddrs).Address,
                  type |-> AllocatedIp(oc.newAddrs).Type,
                  region |-> null, network |-> Nullish(AllocatedIp(oc.newAddrs).Network, null)])
         ELSE ok(<<"Allocated IPv4">>,
                 [address |-> RawStdout,
                  type |-> IF TruthyBool(a, "shared") THEN "shared_v4" ELSE "v4",
                  region |-> null, network |-> null]))

IpAllocateCmd(a) ==
  <<"ips", "allocate", "-a", a.app, "--json">>
  \o (IF TruthyStr(a, "region") THEN <<"--region", a.region>> ELSE <<>>)

fly_ip_allocate(m, a, cfg, i, oc) ==
  LET c == IpAllocateCmd(a) IN
  IF oc.out = "fail"
  THEN Returned(<<c>>, <<FALSE>>, i, NoAudit, err(<<"Failed to allocate IPs">>))
  ELSE Returned(<<c>>, <<TRUE>>, AfterAllocate(i, c, oc.newAddrs), NoAudit,
         IF oc.out = "ok"
         THEN LET data == FlyIpList(oc.newAddrs) IN
              ok(<<"Allocated IP(s)", Len(data)>>,
                 [ips |-> [k \in 1..Len(data) |->
                             [address |-> data[k].Address, type |-> data[k].Type]]])
         ELSE ok(<<"Allocated IPs">>,
                 [ips |-> <<[address |-> RawStdout, type |-> "unknown"]>>]))

(***************************************************************************)
(* Machines: exec (handlers.ts fly_machine_exec)                           *)
(***************************************************************************)
\* MachineExecCmd that lets the caller's words lead the command
MachineExecCmdRaw(a) == a.command \o <<"machine", "exec", a.machine_id, "-a", a.app>>

MachineExecCmd(a) == <<"machine", "exec", a.machine_id>> \o a.command \o <<"-a", a.app>>

\* the ExecResult is returned as data whatever the exit code was
fly_machine_exec(m, a, cfg, i, oc) ==
  IF guardThrows(m, a.app) THEN Threw(<<>>, <<>>, i, NoAudit, GuardMsg)
  ELSE Returned(<<MachineExecCmd(a)>>, <<oc.out # "fail">>, i, NoAudit,
         ok(<<"output">>,
            [stdout |-> "stdout", stderr |-> "stderr",
             exit_code |-> IF oc.out = "fail" THEN 1 ELSE 0]))

(***************************************************************************)
(* Certificates (handlers.ts, unsafe only)                                 *)
(***************************************************************************)
fly_certs_add(m, a, cfg, i, oc) ==
  LET c == <<"certs", "add", a.hostname, "-a", a.app>> IN
  IF oc.out = "fail"
  THEN Returned(<<c>>, <<FALSE>>, i, NoAudit, err(<<"Failed to add cert">>))
  ELSE Returned(<<c>>, <<TRUE>>, i, NoAudit,
                ok(<<"Added certificate">>, [hostname |-> a.hostname]))

\* the decoded `fly certs list --json` array (FlyCertListSchema)
PlatformCerts ==
  <<[Hostname |-> "app.example.com", CreatedAt |-> "2024-01-01T00:00:00Z"],
    [Hostname |-> "www.example.com"]>>

fly_certs_list(m, a, cfg, i, oc) ==
  LET c == <<"certs", "list", "-a", a.app, "--json">> IN
  execJson(c, i, oc,
    ok(<<"certificate(s)", Len(PlatformCerts)>>,
       [certificates |->
          [k \in 1..Len(PlatformCerts) |->
             [hostname |-> PlatformCerts[k].Hostname,
              created_at |-> IF Has(PlatformCerts[k], "CreatedAt")
                             THEN PlatformCerts[k].CreatedAt ELSE null]]]))

fly_certs_remove(m, a, cfg, i, oc) ==
  LET c == <<"certs", "remove", a.hostname, "-a", a.app, "--yes">> IN
  IF oc.out = "fail"
  THEN Returned(<<c>>, <<FALSE>>, i, NoAudit, err(<<"Failed to remove cert">>))
  ELSE Returned(<<c>>, <<TRUE>>, i, NoAudit,
                ok(<<"Removed certificate">>, [ok |-> TRUE, hostname |-> a.hostname]))

(***************************************************************************)
(* Auth and apps (handlers.ts)                                             *)
(***************************************************************************)
\* the try/catch around execJson: every failure is "not authenticated"
fly_auth_status(m, a, cfg, i, oc) ==
  LET c == <<"auth", "whoami", "--json">> IN
  Returned(<<c>>, <<oc.out # "fail">>, i, NoAudit,
    IF oc.out = "ok"
    THEN ok(<<"Authenticated">>, [authenticated |-> TRUE, email |-> "user@example.com"])
    ELSE ok(<<"Not authenticated.">>, [authenticated |-> FALSE]))

\* the decoded `Machines` of `fly status --json` (FlyStatusMachineSchema)
PlatformStatusMachines ==
  <<[id |-> "148e21", state |-> "started", region |-> "iad"],
    [id |-> "9080e6", name |-> "worker", state |-> "stopped", region |-> "iad",
     private_ip |-> "fdaa::1"]>>

\* `r.f ?? d` for an optional field of a decoded object
OrElse(r, f, d) == IF Has(r, f) THEN r[f] ELSE d

fly_app_status(m, a, cfg, i, oc) ==
  LET c == <<"status", "-a", a.app, "--json">> IN
  IF guardThrows(m, a.app) THEN Threw(<<>>, <<>>, i, NoAudit, GuardMsg)
  ELSE LET ms == IF oc.machines THEN PlatformStatusMachines ELSE <<>> IN
    execJson(c, i, oc,
      ok(<<"App", a.app>>,
         [id |-> "app1", name |-> a.app, status |-> "deployed", deployed |-> TRUE,
          hostname |-> "host.fly.dev",
          machines |-> [k \in 1..Len(ms) |->
                          [id |-> ms[k].id, name |-> OrElse(ms[k], "name", ""),
                           state |-> ms[k].state, region |-> ms[k].region,
                           private_ip |-> OrElse(ms[k], "private_ip", "")]]]))

\* getDefaultOrg(config): `config?.fly?.org`
getDefaultOrg(cfg) ==
  IF cfg.found /\ Has(cfg, "fly") THEN cfg.fly.org ELSE undefined

\* getDefaultNetwork(config): `config?.network`
getDefaultNetwork(cfg) == IF cfg.found THEN cfg.network ELSE undefined

\* `args.org ?? getDefaultOrg(await loadConfig())`
OrgOf(a, cfg) == IF Has(a, "org") THEN a.org ELSE getDefaultOrg(cfg)

\* JS truthiness of a string that may be undefined
Truthy(x) == x \notin {undefined, null, ""}

AppsListCmd(a, cfg) ==
  <<"apps", "list", "--json">>
  \o (IF Truthy(OrgOf(a, cfg)) THEN <<"--org", OrgOf(a, cfg)>> ELSE <<>>)

\* the Network the platform reports for an app; the field may be absent
AppNetwork(n, known) ==
  IF startsWith(n, AmbitPrefix) /\ known THEN "browsers" ELSE undefined

\* the decoded `fly apps list --json` array (FlyAppListSchema), in name order
FlyAppList(i, known) ==
  LET names == (IF "ambit-router" \in DOMAIN i THEN <<"ambit-router">> ELSE <<>>)
               \o (IF "my-app" \in DOMAIN i THEN <<"my-app">> ELSE <<>>)
  IN [k \in 1..Len(names) |->
        [Name |-> names[k], Status |-> "deployed", Deployed |-> TRUE,
         Hostname |-> "host.fly.dev", Organization |-> [Slug |-> "acme"],
         Network |-> AppNetwork(names[k], known)]]

\* the predicates of apps.filter(...) in fly_app_list and router_list
NotRouterInfo(app) == ~startsWith(app.Name, AmbitPrefix)

RouterInfo(app) == startsWith(app.Name, AmbitPrefix)

fly_app_list(m, a, cfg, i, oc) ==
  LET all == FlyAppList(i, oc.known)
      apps == IF m = "safe" THEN SelectSeq(all, NotRouterInfo) ELSE all
  IN execJson(AppsListCmd(a, cfg), i, oc,
       ok(<<"app(s)", Len(apps)>>,
          [apps |-> [k \in 1..Len(apps) |->
                       [name |-> apps[k].Name, status |-> apps[k].Status,
                        deployed |-> apps[k].Deployed, hostname |-> apps[k].Hostname,
                        org |-> apps[k].Organization.Slug]]]))

\* the network that fly_app_create puts the app on
CreateNetwork(m, a, cfg) ==
  IF m = "safe" THEN getDefaultNetwork(cfg)
  ELSE IF Has(a, "network") THEN a.network ELSE undefined

\* AppsCreateCmd that never passes --network
AppsCreateCmdNoNetwork(m, a, cfg) ==
  <<"apps", "create", a.name, "--json">>
  \o (IF Truthy(OrgOf(a, cfg)) THEN <<"--org", OrgOf(a, cfg)>> ELSE <<>>)

AppsCreateCmd(m, a, cfg) ==
  <<"apps", "create", a.name, "--json">>
  \o (IF Truthy(CreateNetwork(m, a, cfg))
      THEN <<"--network", CreateNetwork(m, a, cfg)>> ELSE <<>>)
  \o (IF Truthy(OrgOf(a, cfg)) THEN <<"--org", OrgOf(a, cfg)>> ELSE <<>>)

\* the platform's side of an `apps create <name>` that exits 0
AfterCreate(i, cmd) ==
  IF cmd[3] \in DOMAIN i THEN i
  ELSE [n \in DOMAIN i \cup {cmd[3]} |-> IF n \in DOMAIN i THEN i[n] ELSE {}]

\* fly_app_create without the check that a network is configured
fly_app_create_unchecked(m, a, cfg, i, oc) ==
  LET c == AppsCreateCmd(m, a, cfg) IN
  IF oc.out = "fail"
  THEN Returned(<<c>>, <<FALSE>>, i, NoAudit, err(<<"Failed to create app">>))
  ELSE Returned(<<c>>, <<TRUE>>, AfterCreate(i, c), NoAudit,
         ok(<<"Created app", a.name>>,
            [name |-> a.name,
             network |-> Nullish(CreateNetwork(m, a, cfg), null),
             org |-> Nullish(OrgOf(a, cfg), "")]))

fly_app_create(m, a, cfg, i, oc) ==
  LET c == AppsCreateCmd(m, a, cfg) IN
  IF m = "safe" /\ ~Truthy(getDefaultNetwork(cfg))
  THEN Returned(<<>>, <<>>, i, NoAudit, err(<<"No ambit network configured.">>))
  ELSE IF oc.out = "fail"
  THEN Returned(<<c>>, <<FALSE>>, i, NoAudit, err(<<"Failed to create app">>))
  ELSE Returned(<<c>>, <<TRUE>>, AfterCreate(i, c), NoAudit,
         ok(<<"Created app", a.name>>,
            [name |-> a.name,
             network |-> Nullish(CreateNetwork(m, a, cfg), null),
             org |-> Nullish(OrgOf(a, cfg), "")]))

AppsDestroyCmd(a) == <<"apps", "destroy", a.app, "--yes">>

\* the platform's side of an `apps destroy <app>` that exits 0
AfterDestroy(i, cmd) == [n \in DOMAIN i \ {cmd[3]} |-> i[n]]

fly_app_destroy(m, a, cfg, i, oc) ==
  LET c == AppsDestroyCmd(a) IN
  IF guardThrows(m, a.app) THEN Threw(<<>>, <<>>, i, NoAudit, GuardMsg)
  ELSE IF oc.out = "fail"
  THEN Returned(<<c>>, <<FALSE>>, i, NoAudit, err(<<"Failed to destroy app">>))
  ELSE Returned(<<c>>, <<TRUE>>, AfterDestroy(i, c), NoAudit,
                ok(<<"Destroyed app", a.app>>, [ok |-> TRUE, app |-> a.app]))

(***************************************************************************)
(* Machines (handlers.ts)                                                  *)
(***************************************************************************)
MachinesListCmd(app) == <<"machines", "list", "-a", app, "--json">>

\* the decoded `fly machines list --json` array (FlyMachineListSchema)
PlatformMachines ==
  <<[id |-> "148e21", state |-> "started", region |-> "iad"],
    [id |-> "9080e6", name |-> "worker", state |-> "stopped", region |-> "iad",
     private_ip |-> "fdaa::1",
     config |-> [guest |-> [cpu_kind |-> "shared", cpus |-> 1, memory_mb |-> 256]]]>>

\* a JSON value of a field that holds a number or null; null is a number that
\* the platform reports for nothing
JsonNumber(n) == n

JsonNull == 0 - 1

\* `m.config?.guest?.f`, present
HasGuest(mc, f) == Has(mc, "config") /\ Has(mc.config, "guest") /\ Has(mc.config.guest, f)

fly_machine_list(m, a, cfg, i, oc) ==
  IF guardThrows(m, a.app) THEN Threw(<<>>, <<>>, i, NoAudit, GuardMsg)
  ELSE LET ms == IF oc.machines THEN PlatformMachines ELSE <<>> IN
    execJson(MachinesListCmd(a.app), i, oc,
      ok(<<"machine(s)", Len(ms)>>,
         [machines |->
            [k \in 1..Len(ms) |->
               [id |-> ms[k].id, name |-> OrElse(ms[k], "name", ""),
                state |-> ms[k].state, region |-> ms[k].region,
                private_ip |-> OrElse(ms[k], "private_ip", ""),
                cpu_kind |-> IF HasGuest(ms[k], "cpu_kind")
                             THEN ms[k].config.guest.cpu_kind ELSE null,
                cpus |-> IF HasGuest(ms[k], "cpus")
                         THEN JsonNumber(ms[k].config.guest.cpus) ELSE JsonNull,
                memory_mb |-> IF HasGuest(ms[k], "memory_mb")
                              THEN JsonNumber(ms[k].config.guest.memory_mb) ELSE JsonNull]]]))

fly_machine_start(m, a, cfg, i, oc) ==
  LET c == <<"machines", "start", a.machine_id, "-a", a.app>> IN
  IF guardThrows(m, a.app) THEN Threw(<<>>, <<>>, i, NoAudit, GuardMsg)
  ELSE IF oc.out = "fail"
  THEN Returned(<<c>>, <<FALSE>>, i, NoAudit, err(<<"Failed to start machine">>))
  ELSE Returned(<<c>>, <<TRUE>>, i, NoAudit,
                ok(<<"Started machine">>, [ok |-> TRUE, machine_id |-> a.machine_id]))

fly_machine_stop(m, a, cfg, i, oc) ==
  LET c == <<"machines", "stop", a.machine_id, "-a", a.app>> IN
  IF guardThrows(m, a.app) THEN Threw(<<>>, <<>>, i, NoAudit, GuardMsg)
  ELSE IF oc.out = "fail"
  THEN Returned(<<c>>, <<FALSE>>, i, NoAudit, err(<<"Failed to stop machine">>))
  ELSE Returned(<<c>>, <<TRUE>>, i, NoAudit,
                ok(<<"Stopped machine">>, [ok |-> TRUE, machine_id |-> a.machine_id]))

fly_machine_destroy(m, a, cfg, i, oc) ==
  LET c == <<"machines", "destroy", a.machine_id, "-a", a.app>>
           \o (IF TruthyBool(a, "force") THEN <<"--force">> ELSE <<>>) IN
  IF guardThrows(m, a.app) THEN Threw(<<>>, <<>>, i, NoAudit, GuardMsg)
  ELSE IF oc.out = "fail"
  THEN Returned(<<c>>, <<FALSE>>, i, NoAudit,
                err(<<"Failed to destroy machine">>))
  ELSE Returned(<<c>>, <<TRUE>>, i, NoAudit,
                ok(<<"Destroyed machine">>, [ok |-> TRUE, machine_id |-> a.machine_id]))

(***************************************************************************)
(* Secrets, scale, volumes, config, logs (handlers.ts)                     *)
(***************************************************************************)
\* the decoded `fly secrets list --json` array (FlySecretListSchema)
PlatformSecrets ==
  <<[Name |-> "DATABASE_URL", Digest |-> "abc123", CreatedAt |-> "2024-01-01T00:00:00Z"]>>

fly_secrets_list(m, a, cfg, i, oc) ==
  LET c == <<"secrets", "list", "-a", a.app, "--json">> IN
  IF guardThrows(m, a.app) THEN Threw(<<>>, <<>>, i, NoAudit, GuardMsg)
  ELSE execJson(c, i, oc,
         ok(<<"secret(s)", Len(PlatformSecrets)>>,
            [secrets |-> [k \in 1..Len(PlatformSecrets) |->
                            [name |-> PlatformSecrets[k].Name,
                             digest |-> PlatformSecrets[k].Digest,
                             created_at |-> PlatformSecrets[k].CreatedAt]]]))

\* Object.entries(args.secrets).map(([k, v]) => `${k}=${v}`)
SecretPairs(a) == [k \in 1..Len(a.secrets) |-> KeyValue(a.secrets[k])]

fly_secrets_set(m, a, cfg, i, oc) ==
  LET c == <<"secrets", "set">> \o SecretPairs(a) \o <<"-a", a.app>>
           \o (IF TruthyBool(a, "stage") THEN <<"--stage">> ELSE <<>>) IN
  IF guardThrows(m, a.app) THEN Threw(<<>>, <<>>, i, NoAudit, GuardMsg)
  ELSE IF oc.out = "fail"
  THEN Returned(<<c>>, <<FALSE>>, i, NoAudit, err(<<"Failed to set secrets">>))
  ELSE Returned(<<c>>, <<TRUE>>, i, NoAudit,
                ok(<<"Set secret(s)", Len(SecretPairs(a))>>,
                   [ok |-> TRUE, count |-> Len(SecretPairs(a))]))

fly_secrets_unset(m, a, cfg, i, oc) ==
  LET c == <<"secrets", "unset">> \o a.keys \o <<"-a", a.app>> IN
  IF guardThrows(m, a.app) THEN Threw(<<>>, <<>>, i, NoAudit, GuardMsg)
  ELSE IF oc.out = "fail"
  THEN Returned(<<c>>, <<FALSE>>, i, NoAudit, err(<<"Failed to unset secrets">>))
  ELSE Returned(<<c>>, <<TRUE>>, i, NoAudit,
                ok(<<"Unset secret(s)", Len(a.keys)>>, [ok |-> TRUE, count |-> Len(a.keys)]))

\* the decoded `fly scale show --json` array (FlyScaleShowSchema)
PlatformScale ==
  <<[Process |-> "app", Count |-> 2, CPUKind |-> "shared", CPUs |-> 1, Memory |-> 256,
     Regions |-> [iad |-> 2]],
    [Process |-> "worker", Count |-> 1, CPUKind |-> "shared", CPUs |-> 1, Memory |-> 256]>>

fly_scale_show(m, a, cfg, i, oc) ==
  LET c == <<"scale", "show", "-a", a.app, "--json">> IN
  IF guardThrows(m, a.app) THEN Threw(<<>>, <<>>, i, NoAudit, GuardMsg)
  ELSE execJson(c, i, oc,
         ok(<<"process group(s)", Len(PlatformScale)>>,
            [processes |-> [k \in 1..Len(PlatformScale) |->
                              [name |-> PlatformScale[k].Process,
                               count |-> PlatformScale[k].Count,
                               cpu_kind |-> PlatformScale[k].CPUKind,
                               cpus |-> PlatformScale[k].CPUs,
                               memory_mb |-> PlatformScale[k].Memory,
                               regions |-> OrElse(PlatformScale[k], "Regions", [x \in {} |-> x])]]]))

\* String(n) for the numbers that inputs use
NumberText(n) ==
  CASE n = 0 -> "0" [] n = 1 -> "1" [] n = 2 -> "2" [] n = 3 -> "3"
    [] n = 10 -> "10" [] n = 512 -> "512"

fly_scale_count(m, a, cfg, i, oc) ==
  LET c == <<"scale", "count", NumberText(a.count), "-a", a.app, "--yes">>
           \o (IF TruthyStr(a, "region") THEN <<"--region", a.region>> ELSE <<>>)
           \o (IF TruthyStr(a, "process_group") THEN <<"--process-group", a.process_group>> ELSE <<>>) IN
  IF guardThrows(m, a.app) THEN Threw(<<>>, <<>>, i, NoAudit, GuardMsg)
  ELSE IF oc.out = "fail"
  THEN Returned(<<c>>, <<FALSE>>, i, NoAudit, err(<<"Failed to scale">>))
  ELSE Returned(<<c>>, <<TRUE>>, i, NoAudit,
                ok(<<"Scaled to machine(s)", a.count>>, [ok |-> TRUE]))

\* JS truthiness of an optional number input (undefined and 0 are falsy)
TruthyNum(a, f) == Has(a, f) /\ a[f] # 0

fly_scale_vm(m, a, cfg, i, oc) ==
  LET c == <<"scale", "vm", a.size, "-a", a.app, "--yes">>
           \o (IF TruthyNum(a, "memory") THEN <<"--vm-memory", NumberText(a.memory)>> ELSE <<>>) IN
  IF guardThrows(m, a.app) THEN Threw(<<>>, <<>>, i, NoAudit, GuardMsg)
  ELSE IF oc.out = "fail"
  THEN Returned(<<c>>, <<FALSE>>, i, NoAudit, err(<<"Failed to scale VM">>))
  ELSE Returned(<<c>>, <<TRUE>>, i, NoAudit,
                ok(<<"Scaled VM to", a.size>>, [ok |-> TRUE]))

\* the decoded `fly volumes list --json` array (FlyVolumeListSchema)
PlatformVolumes ==
  <<[id |-> "vol_123", name |-> "data", state |-> "created", size_gb |-> 10,
     region |-> "iad", encrypted |-> TRUE, attached_machine_id |-> "148e21"],
    [id |-> "vol_456", name |-> "data", state |-> "created", size_gb |-> 1,
     region |-> "iad", encrypted |-> TRUE]>>

fly_volumes_list(m, a, cfg, i, oc) ==
  LET c == <<"volumes", "list", "-a", a.app, "--json">> IN
  IF guardThrows(m, a.app) THEN Threw(<<>>, <<>>, i, NoAudit, GuardMsg)
  ELSE execJson(c, i, oc,
         ok(<<"volume(s)", Len(PlatformVolumes)>>,
            [volumes |-> [k \in 1..Len(PlatformVolumes) |->
                            [id |-> PlatformVolumes[k].id,
                             name |-> PlatformVolumes[k].name,
                             state |-> PlatformVolumes[k].state,
                             size_gb |-> PlatformVolumes[k].size_gb,
                             region |-> PlatformVolumes[k].region,
                             encrypted |-> PlatformVolumes[k].encrypted,
                             attached_machine_id |->
                               OrElse(PlatformVolumes[k], "attached_machine_id", null)]]]))

\* `args.name ?? "data"`
VolumeName(a) == IF Has(a, "name") THEN a.name ELSE "data"

fly_volumes_create(m, a, cfg, i, oc) ==
  LET c == <<"volumes", "create", VolumeName(a), "-a", a.app, "--region", a.region,
           "--json", "--yes">>
           \o (IF TruthyNum(a, "size_gb") THEN <<"--size", NumberText(a.size_gb)>> ELSE <<>>) IN
  IF guardThrows(m, a.app) THEN Threw(<<>>, <<>>, i, NoAudit, GuardMsg)
  ELSE execJson(c, i, oc,
         ok(<<"Created volume", "vol_789">>,
            [id |-> "vol_789", name |-> VolumeName(a),
             size_gb |-> IF TruthyNum(a, "size_gb") THEN a.size_gb ELSE 1,
             region |-> a.region]))

VolumesDestroyCmd(a) == <<"volumes", "destroy", a.volume_id, "-a", a.app, "--yes">>

\* fly_volumes_destroy that drops trailing blanks of `confirm` before comparing
fly_volumes_destroy_trimmed(m, a, cfg, i, oc) ==
  IF guardThrows(m, a.app) THEN Threw(<<>>, <<>>, i, NoAudit, GuardMsg)
  ELSE IF (IF a.confirm = "vol_123 " THEN "vol_123" ELSE a.confirm) # a.volume_id
  THEN Returned(<<>>, <<>>, i, NoAudit, err(<<"Confirmation failed">>))
  ELSE IF oc.out = "fail"
  THEN Returned(<<VolumesDestroyCmd(a)>>, <<FALSE>>, i, NoAudit,
                err(<<"Failed to destroy volume">>))
  ELSE Returned(<<VolumesDestroyCmd(a)>>, <<TRUE>>, i, NoAudit,
                ok(<<"Destroyed volume">>, [ok |-> TRUE, volume_id |-> a.volume_id]))

fly_volumes_destroy(m, a, cfg, i, oc) ==
  IF guardThrows(m, a.app) THEN Threw(<<>>, <<>>, i, NoAudit, GuardMsg)
  ELSE IF a.confirm # a.volume_id
  THEN Returned(<<>>, <<>>, i, NoAudit, err(<<"Confirmation failed">>))
  ELSE IF oc.out = "fail"
  THEN Returned(<<VolumesDestroyCmd(a)>>, <<FALSE>>, i, NoAudit,
                err(<<"Failed to destroy volume">>))
  ELSE Returned(<<VolumesDestroyCmd(a)>>, <<TRUE>>, i, NoAudit,
                ok(<<"Destroyed volume">>, [ok |-> TRUE, volume_id |-> a.volume_id]))

\* exec, then JSON.parse in a try/catch that returns an error result
fly_config_show(m, a, cfg, i, oc) ==
  IF guardThrows(m, a.app) THEN Threw(<<>>, <<>>, i, NoAudit, GuardMsg)
  ELSE IF oc.out = "fail"
  THEN Returned(<<ConfigShowCmd(a.app)>>, <<FALSE>>, i, NoAudit, err(<<"Failed to get config">>))
  ELSE IF oc.out = "malformed"
  THEN Returned(<<ConfigShowCmd(a.app)>>, <<TRUE>>, i, NoAudit, err(<<"Invalid config JSON">>))
  ELSE Returned(<<ConfigShowCmd(a.app)>>, <<TRUE>>, i, NoAudit,
                ok(<<"Config for", a.app>>, [config |-> [app |-> a.app]]))

\* the decoded lines of `fly logs --json --no-tail` (FlyLogEntrySchema)
PlatformLogs ==
  <<[timestamp |-> "2024-01-01T00:00:00Z", message |-> "Listening on :8080"],
    [timestamp |-> "2024-01-01T00:00:01Z", level |-> "info", message |-> "ready",
     region |-> "iad", instance |-> "148e21"]>>

\* entries.map(...) of fly_logs and router_logs
NormalizedLogs ==
  [k \in 1..Len(PlatformLogs) |->
     [timestamp |-> PlatformLogs[k].timestamp,
      level |-> OrElse(PlatformLogs[k], "level", ""),
      message |-> PlatformLogs[k].message,
      region |-> OrElse(PlatformLogs[k], "region", ""),
      instance |-> OrElse(PlatformLogs[k], "instance", "")]]

\* execNdjson(c, schema), then `res` returned by the handler
execNdjson(c, i, oc, res) ==
  IF oc.out = "fail" THEN Threw(<<c>>, <<FALSE>>, i, NoAudit, ExecFailed(c))
  ELSE IF oc.out = "malformed" THEN Threw(<<c>>, <<TRUE>>, i, NoAudit, ParseFailed)
  ELSE Returned(<<c>>, <<TRUE>>, i, NoAudit, res)

fly_logs(m, a, cfg, i, oc) ==
  LET c == <<"logs", "-a", a.app, "--no-tail", "--json">>
           \o (IF TruthyStr(a, "region") THEN <<"--region", a.region>> ELSE <<>>)
           \o (IF TruthyStr(a, "machine") THEN <<"--machine", a.machine>> ELSE <<>>) IN
  IF guardThrows(m, a.app) THEN Threw(<<>>, <<>>, i, NoAudit, GuardMsg)
  ELSE execNdjson(c, i, oc,
         ok(<<"log entries", Len(NormalizedLogs)>>, [entries |-> NormalizedLogs]))

(***************************************************************************)
(* Router tools (handlers.ts, safe only)                                   *)
(***************************************************************************)
\* a.Name.replace("ambit-", "").replace(/-[a-z0-9]+$/, "") for the router
\* names of the platform
NetworkFromName(n) ==
  CASE n = "ambit-router" -> "router"
    [] OTHER -> n

router_list(m, a, cfg, i, oc) ==
  LET routers == SelectSeq(FlyAppList(i, oc.known), RouterInfo) IN
  execJson(AppsListCmd(a, cfg), i, oc,
    ok(<<"router(s)", Len(routers)>>,
       [routers |-> [k \in 1..Len(routers) |->
                       [network |-> Nullish(routers[k].Network, NetworkFromName(routers[k].Name)),
                        app_name |-> routers[k].Name, region |-> null,
                        machine_state |-> routers[k].Status, private_ip |-> null,
                        subnet |-> null]]]))

\* apps.find(a => a.Name.startsWith("ambit-") && a.Network === args.network)
FindRouter(apps, network) ==
  LET hits == {k \in 1..Len(apps) :
                 startsWith(apps[k].Name, AmbitPrefix) /\ apps[k].Network = network}
  IN IF hits = {} THEN <<>> ELSE <<apps[CHOOSE k \in hits : \A j \in hits : k <= j]>>

NoRouterMsg == <<"No router found for network">>

router_status(m, a, cfg, i, oc) ==
  LET c1 == AppsListCmd(a, cfg)
      found == FindRouter(FlyAppList(i, oc.known), a.network)
  IN IF oc.out # "ok" THEN execJson(c1, i, oc, err(<<>>))
     ELSE IF found = <<>> THEN Returned(<<c1>>, <<TRUE>>, i, NoAudit, err(NoRouterMsg))
     ELSE LET c2 == MachinesListCmd(found[1].Name)
              ms == IF oc.second = "ok" /\ oc.machines THEN PlatformMachines ELSE <<>>
          IN Returned(<<c1, c2>>, <<TRUE, oc.second # "fail">>, i, NoAudit,
               ok(<<"Router for network", a.network>>,
                  [network |-> a.network, app_name |-> found[1].Name,
                   region |-> IF ms # <<>> THEN ms[1].region ELSE null,
                   machine_state |-> IF ms # <<>> THEN ms[1].state ELSE found[1].Status,
                   private_ip |-> IF ms # <<>> THEN OrElse(ms[1], "private_ip", null) ELSE null,
                   subnet |-> null, tag |-> null]))

router_deploy(m, a, cfg, i, oc) ==
  Returned(<<>>, <<>>, i, NoAudit, err(<<"Router deployment is not yet implemented">>))

router_destroy(m, a, cfg, i, oc) ==
  Returned(<<>>, <<>>, i, NoAudit, err(<<"Router destruction is not yet implemented">>))

router_doctor(m, a, cfg, i, oc) ==
  Returned(<<>>, <<>>, i, NoAudit, err(<<"Router doctor is not yet implemented">>))

router_logs(m, a, cfg, i, oc) ==
  LET c1 == AppsListCmd(a, cfg)
      found == FindRouter(FlyAppList(i, oc.known), a.network)
  IN IF oc.out # "ok" THEN execJson(c1, i, oc, err(<<>>))
     ELSE IF found = <<>> THEN Returned(<<c1>>, <<TRUE>>, i, NoAudit, err(NoRouterMsg))
     ELSE LET c2 == <<"logs", "-a", found[1].Name, "--no-tail", "--json">>
          IN IF oc.second = "fail"
             THEN Threw(<<c1, c2>>, <<TRUE, FALSE>>, i, NoAudit, ExecFailed(c2))
             ELSE IF oc.second = "malformed"
             THEN Threw(<<c1, c2>>, <<TRUE, TRUE>>, i, NoAudit, ParseFailed)
             ELSE Returned(<<c1, c2>>, <<TRUE, TRUE>>, i, NoAudit,
                    ok(<<"router log entries", Len(NormalizedLogs)>>,
                       [entries |-> NormalizedLogs]))

(***************************************************************************)
(* Dispatch (main.ts: registration loop and registerTool callback)         *)
(***************************************************************************)
\* the entry `fly_deploy: safe ? fly_deploy_safe : fly_deploy_unsafe` of the
\* handler map
fly_deploy(m, a, cfg, i, oc) ==
  IF m = "safe" THEN fly_deploy_safe(m, a, cfg, i, oc) ELSE fly_deploy_unsafe(m, a, cfg, i, oc)

\* A call of tool `name` with input `a`; `handled` is what handlers[name] does
\* with the parsed input.  Only the names of buildTools(mode) are registered
\* with the server; the server validates the input against the tool's
\* inputSchema before it runs the callback; the callback answers "no handler
\* registered" when createHandlers(mode) has no such key, and turns an Error
\* thrown by the handler into an isError result.
Dispatch(m, name, a, i, handled) ==
  IF name \notin buildTools(m)
  THEN Returned(<<>>, <<>>, i, NoAudit, err(<<"tool not found">>))
  ELSE IF ~ValidInput(m, name, a)
  THEN Returned(<<>>, <<>>, i, NoAudit, err(<<"invalid arguments">>))
  ELSE IF name \notin createHandlers(m)
  THEN Returned(<<>>, <<>>, i, NoAudit, err(<<"no handler registered">>))
  ELSE IF handled.threw
  THEN Returned(handled.cmds, handled.exits, handled.ips, handled.audit, err(handled.msg))
  ELSE handled

(***************************************************************************)
(* Inputs and platform outcomes drawn by the actions                       *)
(***************************************************************************)
NoConfig == [found |-> FALSE]

\* loadConfig(): null, or a config that ConfigSchema accepts
Configs ==
  {NoConfig,
   [found |-> TRUE, network |-> ""],
   [found |-> TRUE, network |-> "browsers"],
   [found |-> TRUE, network |-> "browsers", fly |-> [org |-> "acme"]]}

\* merged configurations the platform may hold for an app
MergedConfigs ==
  {[app |-> "my-app"],
   [services |-> <<[ports |-> <<[port |-> 80, handlers |-> <<"http">>],
                                [port |-> 443, handlers |-> <<"tls", "http">>]>>]>>],
   [services |-> <<[ports |-> <<[port |-> 443, handlers |-> <<"tls">>]>>]>>,
    http_service |-> [force_https |-> TRUE]]}

\* how `config show` ends when the platform holds `merged`: it exits nonzero,
\* prints nothing, prints text that is not JSON, or prints the configuration
ConfigOutcomes ==
  {[success |-> FALSE, stdout |-> "empty", merged |-> m] :
     m \in {c \in MergedConfigs : Has(c, "app") \/ Has(c, "http_service")}}
  \cup {[success |-> TRUE, stdout |-> o, merged |-> [app |-> "my-app"]] :
          o \in {"empty", "notjson"}}
  \cup {[success |-> TRUE, stdout |-> "json", parsed |-> m, merged |-> m] :
          m \in MergedConfigs}

PublicAddrs == {a \in Addrs : AddrType(a) # "private_v6"}

\* outcomes of the commands of an audit
AuditOutcomes ==
  {[list |-> l, relFail |-> {}, cfg |-> [success |-> FALSE, stdout |-> "empty"]] :
     l \in {"fail", "malformed"}}
  \cup {[list |-> "ok", relFail |-> rf, cfg |-> c] :
          rf \in SUBSET PublicAddrs, c \in ConfigOutcomes}

\* outcomes of the commands of a deploy: of `fly deploy` itself, and, when it
\* exits 0, what the platform attached and, in safe mode, the outcomes of the
\* commands of the audit
DeployOutcomes(m) ==
  {[deployOk |-> FALSE, attached |-> {}, list |-> "fail", relFail |-> {},
    cfg |-> [success |-> FALSE, stdout |-> "empty"]]}
  \cup {[deployOk |-> TRUE, attached |-> at, list |-> au.list, relFail |-> au.relFail,
         cfg |-> au.cfg] :
          at \in SUBSET Addrs,
          au \in IF m = "safe" THEN AuditOutcomes
                 ELSE {[list |-> "fail", relFail |-> {},
                        cfg |-> [success |-> FALSE, stdout |-> "empty"]]}}

\* a command that only has an exit status
ExecOutcomes == {[out |-> "ok"], [out |-> "fail"]}

\* a command whose stdout is decoded: it may exit 0 with undecodable output
JsonOutcomes == {[out |-> "ok"], [out |-> "fail"], [out |-> "malformed"]}

\* the address types the platform binds for an allocation command
PlatformAllocTypes(cmd) ==
  IF cmd[2] = "allocate-v4" THEN {"v4"}
  ELSE IF cmd[2] = "allocate-v6"
  THEN IF "--private" \in Range(cmd) THEN {"private_v6"} ELSE {"v6"}
  ELSE {"v4", "v6"}

FreeAddrs(i, app, types) ==
  {x \in Addrs : AddrType(x) \in types /\ (app \in DOMAIN i => x \notin i[app])}

\* an allocation fails, or binds free addresses and prints JSON or text
AllocOutcomes(i, app, cmd) ==
  {[out |-> "fail", newAddrs |-> {}]}
  \cup {[out |-> o, newAddrs |-> new] :
          o \in {"ok", "malformed"},
          new \in {n \in SUBSET FreeAddrs(i, app, PlatformAllocTypes(cmd)) :
                     n # {} /\ (cmd[2] # "allocate" => Cardinality(n) = 1)}}

\* no fly.toml in the working directory, or none looked at
NoFlyToml == [found |-> FALSE]

\* the fly.toml files a working directory may hold, as parsed: no services,
\* plain internal services, the public HTTPS shape once and twice,
\* force_https on and off, and TLS on another port
FlyTomls ==
  {NoFlyToml,
   [found |-> TRUE, toml |-> [app |-> "my-app"]],
   [found |-> TRUE,
    toml |-> [services |-> <<[ports |-> <<[port |-> 80, handlers |-> <<"http">>]>>]>>]],
   [found |-> TRUE,
    toml |-> [services |-> <<[ports |-> <<[port |-> 80, handlers |-> <<"http">>],
                                          [port |-> 443, handlers |-> <<"tls", "http">>]>>]>>]],
   [found |-> TRUE,
    toml |-> [services |-> <<[ports |-> <<[port |-> 443, handlers |-> <<"tls">>]>>],
                             [internal_port |-> 8080],
                             [ports |-> <<[port |-> 443, handlers |-> <<"tls", "http">>]>>]>>,
              http_service |-> [force_https |-> TRUE]]],
   [found |-> TRUE, toml |-> [http_service |-> [force_https |-> TRUE]]],
   [found |-> TRUE,
    toml |-> [services |-> <<[ports |-> <<[port |-> 443, handlers |-> <<"http">>],
                                          [port |-> 8443, handlers |-> <<"tls">>],
                                          [port |-> 443]>>]>>,
              http_service |-> [force_https |-> FALSE]]]}

\* the input `{}`
NoInput == [x \in {} |-> x]

\* words a caller may put into the `command` array
CommandWords == {"ls", "--port", "-p"}

Commands == UNION {[1..n -> CommandWords] : n \in 0..MaxCommandLen}

\* the inputs that callers send to each tool: inputs that its inputSchema
\* accepts, with and without the optional fields, and inputs that lack a
\* required field
Inputs(name) ==
  CASE name = "fly_auth_status" -> {NoInput}
    [] name \in {"fly_app_status", "fly_machine_list", "fly_ip_list",
                 "fly_secrets_list", "fly_scale_show", "fly_volumes_list",
                 "fly_config_show", "fly_certs_list"} ->
         {[app |-> n] : n \in AppNames \cup {"ambit"}} \cup {[org |-> "acme"]}
    [] name = "fly_app_destroy" ->
         {[app |-> n] : n \in AppNames \cup {"ambit"}}
         \cup {[app |-> "my-app", confirm |-> c] : c \in {"my-app", "my-app "}}
         \cup {[org |-> "acme"]}
    [] name \in {"fly_app_list", "router_list"} -> {NoInput, [org |-> "acme"], [org |-> ""]}
    [] name = "fly_app_create" ->
         {[name |-> n] : n \in AppNames}
         \cup {[name |-> "my-app", network |-> w] : w \in {"infra", ""}}
         \cup {[name |-> "my-app", org |-> "acme"], [org |-> "acme"]}
    [] name \in {"fly_machine_start", "fly_machine_stop"} ->
         {[app |-> n, machine_id |-> "148e21"] : n \in AppNames} \cup {[app |-> "my-app"]}
    [] name = "fly_machine_destroy" ->
         {[app |-> n, machine_id |-> "148e21"] : n \in AppNames}
         \cup {[app |-> "my-app", machine_id |-> "148e21", force |-> b] : b \in BOOLEAN}
         \cup {[app |-> "my-app"]}
    [] name = "fly_machine_exec" ->
         {[app |-> n, machine_id |-> "148e21", command |-> c] : n \in AppNames, c \in Commands}
         \cup {[app |-> "my-app", machine_id |-> "148e21"]}
    [] name = "fly_ip_release" ->
         {[app |-> n, address |-> AddrText[x]] : n \in AppNames, x \in Addrs}
         \cup {[app |-> "my-app"]}
    [] name = "fly_secrets_set" ->
         {[app |-> n, secrets |-> <<<<"DATABASE_URL", "postgres://db">>>>] : n \in AppNames}
         \cup {[app |-> "my-app", secrets |-> <<<<"LOG", "debug">>, <<"--port", "8080">>>>,
                 stage |-> TRUE],
                [app |-> "my-app"]}
    [] name = "fly_secrets_unset" ->
         {[app |-> n, keys |-> <<"DATABASE_URL">>] : n \in AppNames}
         \cup {[app |-> "my-app", keys |-> <<"LOG", "--port">>], [app |-> "my-app"]}
    [] name = "fly_scale_count" ->
         {[app |-> n, count |-> 2] : n \in AppNames}
         \cup {[app |-> "my-app", count |-> 0, region |-> "iad", process_group |-> "worker"],
                [app |-> "my-app"]}
    [] name = "fly_scale_vm" ->
         {[app |-> n, size |-> "shared-cpu-1x"] : n \in AppNames}
         \cup {[app |-> "my-app", size |-> "shared-cpu-1x", memory |-> mm] : mm \in {0, 512}}
         \cup {[app |-> "my-app"]}
    [] name = "fly_volumes_create" ->
         {[app |-> n, region |-> "iad"] : n \in AppNames}
         \cup {[app |-> "my-app", region |-> "iad", name |-> "pgdata", size_gb |-> 10],
                [app |-> "my-app"]}
    [] name = "fly_volumes_destroy" ->
         {[app |-> n, volume_id |-> "vol_123", confirm |-> c] :
            n \in AppNames, c \in {"vol_123", "vol_123 ", "VOL_123", ""}}
         \cup {[app |-> "my-app", volume_id |-> "vol_123"]}
    [] name = "fly_logs" ->
         {[app |-> n] : n \in AppNames}
         \cup {[app |-> "my-app", region |-> "iad", machine |-> "148e21"], [region |-> "iad"]}
    [] name = "fly_deploy" ->
         {[app |-> n] : n \in AppNames}
         \cup {[app |-> "my-app", image |-> im] :
                 im \in {"registry.fly.io/my-app:latest", "", "--flycast"}}
         \cup {[app |-> "my-app", no_public_ips |-> b, flycast |-> c] : b, c \in BOOLEAN}
         \cup {[app |-> n, image |-> "img", dockerfile |-> "Dockerfile", region |-> "iad",
                strategy |-> "rolling",
                env |-> <<<<"LOG", "debug">>, <<"A", "--no-public-ips">>>>,
                build_args |-> <<<<"V", "1">>>>, no_public_ips |-> FALSE, flycast |-> TRUE,
                ha |-> h] : n \in AppNames, h \in BOOLEAN}
         \cup {[image |-> "img"]}
    [] name = "fly_ip_allocate_flycast" ->
         {[app |-> n, network |-> w] : n \in AppNames, w \in {"browsers", ""}}
         \cup {[app |-> "my-app"], [network |-> "browsers"]}
    [] name = "fly_ip_allocate_v6" ->
         {[app |-> n] : n \in AppNames}
         \cup {[app |-> "my-app", private |-> b, network |-> "browsers"] : b \in BOOLEAN}
         \cup {[app |-> "my-app", private |-> TRUE, region |-> "iad", org |-> "acme"]}
    [] name = "fly_ip_allocate_v4" ->
         {[app |-> n] : n \in AppNames}
         \cup {[app |-> "my-app", shared |-> TRUE, region |-> "iad"]}
    [] name = "fly_ip_allocate" ->
         {[app |-> n] : n \in AppNames} \cup {[app |-> "my-app", region |-> "iad"]}
    [] name \in {"fly_certs_add", "fly_certs_remove"} ->
         {[app |-> n, hostname |-> "app.example.com"] : n \in AppNames}
         \cup {[app |-> "my-app"]}
    [] name \in {"router_status", "router_logs"} ->
         {[network |-> w] : w \in {"browsers", "router", "infra"}}
         \cup {[network |-> "browsers", org |-> "acme"], NoInput}
    [] name \in {"router_deploy", "router_destroy", "router_doctor"} ->
         {[network |-> "browsers"], NoInput}

\* `fly machines list` / `fly status`: with or without machines
MachinesOutcomes ==
  {[out |-> "fail", machines |-> FALSE], [out |-> "malformed", machines |-> FALSE]}
  \cup {[out |-> "ok", machines |-> b] : b \in BOOLEAN}

\* `fly apps list`: with or without the Network field
AppsOutcomes ==
  {[out |-> "fail", known |-> FALSE], [out |-> "malformed", known |-> FALSE]}
  \cup {[out |-> "ok", known |-> b] : b \in BOOLEAN}

\* `fly apps list`, then a second command for the router that was found
RouterOutcomes ==
  {[out |-> o.out, known |-> o.known, second |-> "fail", machines |-> FALSE] :
     o \in AppsOutcomes}
  \cup {[out |-> "ok", known |-> TRUE, second |-> x, machines |-> b] :
           x \in {"ok", "malformed"}, b \in BOOLEAN}

\* an input that has every key a handler reads, for a call of a tool that is
\* not registered
AnyInput ==
  [app |-> "my-app", name |-> "my-app", network |-> "browsers", org |-> "acme",
   hostname |-> "app.example.com", address |-> AddrText[1], machine_id |-> "148e21",
   command |-> <<"ls">>, region |-> "iad", volume_id |-> "vol_123",
   confirm |-> "vol_123", secrets |-> <<<<"LOG", "debug">>>>, keys |-> <<"LOG">>,
   count |-> 1, size |-> "shared-cpu-1x"]

\* the platform's outcomes are drawn only for a call that reaches its handler
\* and passes the guard; any other call runs no command
Reaches(m, name, a) ==
  /\ name \in buildTools(m)
  /\ ValidInput(m, name, a)
  /\ name \in createHandlers(m)
  /\ Has(a, "app") => ~guardThrows(m, a.app)

NoOutcome == [none |-> TRUE]

\* an outcome in which the (first) command exits nonzero
Fails(o) == IF Has(o, "deployOk") THEN ~o.deployOk ELSE o.out = "fail"

\* the outcomes the platform can produce for the commands of a call that
\* reaches its handler; `apps create` of a name the platform already has
\* exits nonzero
PlatformOutcomes(m, name, a, i) ==
  CASE name \in {"fly_auth_status", "fly_ip_list", "fly_secrets_list", "fly_scale_show",
                 "fly_volumes_list", "fly_volumes_create", "fly_config_show", "fly_logs",
                 "fly_certs_list"} -> JsonOutcomes
    [] name \in {"fly_app_destroy", "fly_machine_start", "fly_machine_stop",
                 "fly_machine_destroy", "fly_machine_exec", "fly_ip_release",
                 "fly_secrets_set", "fly_secrets_unset", "fly_scale_count", "fly_scale_vm",
                 "fly_volumes_destroy", "fly_certs_add", "fly_certs_remove"} -> ExecOutcomes
    [] name \in {"fly_app_status", "fly_machine_list"} -> MachinesOutcomes
    [] name \in {"fly_app_list", "router_list"} -> AppsOutcomes
    [] name \in {"router_status", "router_logs"} -> RouterOutcomes
    [] name \in {"router_deploy", "router_destroy", "router_doctor"} -> {NoOutcome}
    [] name = "fly_deploy" -> DeployOutcomes(m)
    [] name = "fly_app_create" ->
         IF a.name \in DOMAIN i THEN {[out |-> "fail"]} ELSE ExecOutcomes
    [] name = "fly_ip_allocate_flycast" -> AllocOutcomes(i, a.app, IpAllocateFlycastCmd(a))
    [] name = "fly_ip_allocate_v6" -> AllocOutcomes(i, a.app, IpAllocateV6Cmd(a))
    [] name = "fly_ip_allocate_v4" -> AllocOutcomes(i, a.app, IpAllocateV4Cmd(a))
    [] name = "fly_ip_allocate" -> AllocOutcomes(i, a.app, IpAllocateCmd(a))

\* the outcomes drawn for a call: none when the call runs no command, and
\* only failures for a command that names an app the platform does not have
OutcomesOf(m, name, a, i) ==
  IF ~Reaches(m, name, a) THEN {NoOutcome}
  ELSE LET S == PlatformOutcomes(m, name, a, i) IN
    IF Has(a, "app") /\ a.app \notin DOMAIN i THEN {o \in S : Fails(o)} ELSE S

(***************************************************************************)
(* The state machine                                                       *)
(***************************************************************************)
NoArgs == [none |-> TRUE]

Started == ok(<<"started">>, [ok |-> TRUE])

\* the requests a client may have outstanding at once
Requests == {"r1", "r2"}

\* no callback has been invoked
NotCalled ==
  [at |-> "free", tool |-> "none", input |-> NoArgs, ran |-> {}, isError |-> FALSE,
   list |-> <<>>, k |-> 1, public_ips_released |-> 0]

NoCalls == [r \in Requests |-> NotCalled]

\* the router app keeps one Flycast address; my-app starts with any addresses
Init ==
  /\ mode \in Modes
  /\ config \in Configs
  /\ ips \in [PlatformApps -> SUBSET Addrs]
  /\ ips["ambit-router"] = {2}
  /\ pc = "idle"
  /\ op = "none"
  /\ args = NoArgs
  /\ cmds = <<>>
  /\ exits = <<>>
  /\ result = Started
  /\ audit = NoAudit
  /\ pre = ips
  /\ flyToml = NoFlyToml
  /\ calls = NoCalls

\* one call of tool `name` with input `a`, handled to completion, in a
\* working directory that holds `toml`; `handled` is what handlers[name] does
\* with the parsed input
InvokeIn(toml, name, a, handled) ==
  \E h \in {Dispatch(mode, name, a, ips, handled)} :
    /\ pc' = "done"
    /\ op' = name
    /\ args' = a
    /\ cmds' = h.cmds
    /\ exits' = h.exits
    /\ result' = h.value
    /\ audit' = h.audit
    /\ pre' = ips
    /\ ips' = h.ips
    /\ flyToml' = toml
    /\ UNCHANGED <<mode, config, calls>>

\* a call for which the working directory does not matter
Invoke(name, a, handled) == InvokeIn(NoFlyToml, name, a, handled)

\* the result goes back to the caller; nothing of the call is kept
Respond ==
  /\ pc = "done"
  /\ pc' = "idle"
  /\ op' = "none"
  /\ args' = NoArgs
  /\ cmds' = <<>>
  /\ exits' = <<>>
  /\ result' = Started
  /\ audit' = NoAudit
  /\ pre' = ips
  /\ flyToml' = NoFlyToml
  /\ UNCHANGED <<mode, config, ips, calls>>

\* no handler runs for a name that is not registered
NoHandler == Threw(<<>>, <<>>, <<>>, NoAudit, <<"not registered">>)

\* a call that names a tool this server has not registered
Call_unregistered ==
  /\ pc = "idle"
  /\ \E name \in (ToolNames \cup UnknownNames) \ buildTools(mode) :
    Invoke(name, AnyInput, NoHandler)

\* one action per registered tool: any of its inputs, and any outcome of the
\* platform for the commands it runs
Next ==
  \/ /\ pc = "idle"
     /\ \E a \in Inputs("fly_auth_status") : \E oc \in OutcomesOf(mode, "fly_auth_status", a, ips) :
          Invoke("fly_auth_status", a,
                 fly_auth_status(mode, ParsedInput(mode, "fly_auth_status", a), config, ips, oc))
  \/ /\ pc = "idle"
     /\ \E a \in Inputs("fly_app_status") : \E oc \in OutcomesOf(mode, "fly_app_status", a, ips) :
          Invoke("fly_app_status", a,
                 fly_app_status(mode, ParsedInput(mode, "fly_app_status", a), config, ips, oc))
  \/ /\ pc = "idle"
     /\ \E a \in Inputs("fly_app_list") : \E oc \in OutcomesOf(mode, "fly_app_list", a, ips) :
          Invoke("fly_app_list", a,
                 fly_app_list(mode, ParsedInput(mode, "fly_app_list", a), config, ips, oc))
  \/ /\ pc = "idle"
     /\ \E a \in Inputs("fly_app_create") : \E oc \in OutcomesOf(mode, "fly_app_create", a, ips) :
          Invoke("fly_app_create", a,
                 fly_app_create(mode, ParsedInput(mode, "fly_app_create", a), config, ips, oc))
  \/ /\ pc = "idle"
     /\ \E a \in Inputs("fly_app_destroy") : \E oc \in OutcomesOf(mode, "fly_app_destroy", a, ips) :
          Invoke("fly_app_destroy", a,
                 fly_app_destroy(mode, ParsedInput(mode, "fly_app_destroy", a), config, ips, oc))
  \/ /\ pc = "idle"
     /\ \E a \in Inputs("fly_machine_list") : \E oc \in OutcomesOf(mode, "fly_machine_list", a, ips) :
          Invoke("fly_machine_list", a,
                 fly_machine_list(mode, ParsedInput(mode, "fly_machine_list", a), config, ips, oc))
  \/ /\ pc = "idle"
     /\ \E a \in Inputs("fly_machine_start") : \E oc \in OutcomesOf(mode, "fly_machine_start", a, ips) :
          Invoke("fly_machine_start", a,
                 fly_machine_start(mode, ParsedInput(mode, "fly_machine_start", a), config, ips, oc))
  \/ /\ pc = "idle"
     /\ \E a \in Inputs("fly_machine_stop") : \E oc \in OutcomesOf(mode, "fly_machine_stop", a, ips) :
          Invoke("fly_machine_stop", a,
                 fly_machine_stop(mode, ParsedInput(mode, "fly_machine_stop", a), config, ips, oc))
  \/ /\ pc = "idle"
     /\ \E a \in Inputs("fly_machine_destroy") : \E oc \in OutcomesOf(mode, "fly_machine_destroy", a, ips) :
          Invoke("fly_machine_destroy", a,
                 fly_machine_destroy(mode, ParsedInput(mode, "fly_machine_destroy", a), config, ips, oc))
  \/ /\ pc = "idle"
     /\ \E a \in Inputs("fly_machine_exec") : \E oc \in OutcomesOf(mode, "fly_machine_exec", a, ips) :
          Invoke("fly_machine_exec", a,
                 fly_machine_exec(mode, ParsedInput(mode, "fly_machine_exec", a), config, ips, oc))
  \/ /\ pc = "idle"
     /\ \E a \in Inputs("fly_ip_list") : \E oc \in OutcomesOf(mode, "fly_ip_list", a, ips) :
          Invoke("fly_ip_list", a,
                 fly_ip_list(mode, ParsedInput(mode, "fly_ip_list", a), config, ips, oc))
  \/ /\ pc = "idle"
     /\ \E a \in Inputs("fly_ip_release") : \E oc \in OutcomesOf(mode, "fly_ip_release", a, ips) :
          Invoke("fly_ip_release", a,
                 fly_ip_release(mode, ParsedInput(mode, "fly_ip_release", a), config, ips, oc))
  \/ /\ pc = "idle"
     /\ \E a \in Inputs("fly_secrets_list") : \E oc \in OutcomesOf(mode, "fly_secrets_list", a, ips) :
          Invoke("fly_secrets_list", a,
                 fly_secrets_list(mode, ParsedInput(mode, "fly_secrets_list", a), config, ips, oc))
  \/ /\ pc = "idle"
     /\ \E a \in Inputs("fly_secrets_set") : \E oc \in OutcomesOf(mode, "fly_secrets_set", a, ips) :
          Invoke("fly_secrets_set", a,
                 fly_secrets_set(mode, ParsedInput(mode, "fly_secrets_set", a), config, ips, oc))
  \/ /\ pc = "idle"
     /\ \E a \in Inputs("fly_secrets_unset") : \E oc \in OutcomesOf(mode, "fly_secrets_unset", a, ips) :
          Invoke("fly_secrets_unset", a,
                 fly_secrets_unset(mode, ParsedInput(mode, "fly_secrets_unset", a), config, ips, oc))
  \/ /\ pc = "idle"
     /\ \E a \in Inputs("fly_scale_show") : \E oc \in OutcomesOf(mode, "fly_scale_show", a, ips) :
          Invoke("fly_scale_show", a,
                 fly_scale_show(mode, ParsedInput(mode, "fly_scale_show", a), config, ips, oc))
  \/ /\ pc = "idle"
     /\ \E a \in Inputs("fly_scale_count") : \E oc \in OutcomesOf(mode, "fly_scale_count", a, ips) :
          Invoke("fly_scale_count", a,
                 fly_scale_count(mode, ParsedInput(mode, "fly_scale_count", a), config, ips, oc))
  \/ /\ pc = "idle"
     /\ \E a \in Inputs("fly_scale_vm") : \E oc \in OutcomesOf(mode, "fly_scale_vm", a, ips) :
          Invoke("fly_scale_vm", a,
                 fly_scale_vm(mode, ParsedInput(mode, "fly_scale_vm", a), config, ips, oc))
  \/ /\ pc = "idle"
     /\ \E a \in Inputs("fly_volumes_list") : \E oc \in OutcomesOf(mode, "fly_volumes_list", a, ips) :
          Invoke("fly_volumes_list", a,
                 fly_volumes_list(mode, ParsedInput(mode, "fly_volumes_list", a), config, ips, oc))
  \/ /\ pc = "idle"
     /\ \E a \in Inputs("fly_volumes_create") : \E oc \in OutcomesOf(mode, "fly_volumes_create", a, ips) :
          Invoke("fly_volumes_create", a,
                 fly_volumes_create(mode, ParsedInput(mode, "fly_volumes_create", a), config, ips, oc))
  \/ /\ pc = "idle"
     /\ \E a \in Inputs("fly_volumes_destroy") : \E oc \in OutcomesOf(mode, "fly_volumes_destroy", a, ips) :
          Invoke("fly_volumes_destroy", a,
                 fly_volumes_destroy(mode, ParsedInput(mode, "fly_volumes_destroy", a), config, ips, oc))
  \/ /\ pc = "idle"
     /\ \E a \in Inputs("fly_config_show") : \E oc \in OutcomesOf(mode, "fly_config_show", a, ips) :
          Invoke("fly_config_show", a,
                 fly_config_show(mode, ParsedInput(mode, "fly_config_show", a), config, ips, oc))
  \/ /\ pc = "idle"
     /\ \E a \in Inputs("fly_logs") : \E oc \in OutcomesOf(mode, "fly_logs", a, ips) :
          Invoke("fly_logs", a,
                 fly_logs(mode, ParsedInput(mode, "fly_logs", a), config, ips, oc))
  \/ /\ pc = "idle"
     /\ \E a \in Inputs("fly_deploy") : \E oc \in OutcomesOf(mode, "fly_deploy", a, ips) :
          Invoke("fly_deploy", a,
                 fly_deploy(mode, ParsedInput(mode, "fly_deploy", a), config, ips, oc))
  \/ /\ pc = "idle"
     /\ \E a \in Inputs("fly_ip_allocate_flycast") : \E oc \in OutcomesOf(mode, "fly_ip_allocate_flycast", a, ips) :
          Invoke("fly_ip_allocate_flycast", a,
                 fly_ip_allocate_flycast(mode, ParsedInput(mode, "fly_ip_allocate_flycast", a), config, ips, oc))
  \/ /\ pc = "idle"
     /\ \E a \in Inputs("fly_ip_allocate_v6") : \E oc \in OutcomesOf(mode, "fly_ip_allocate_v6", a, ips) :
          Invoke("fly_ip_allocate_v6", a,
                 fly_ip_allocate_v6(mode, ParsedInput(mode, "fly_ip_allocate_v6", a), config, ips, oc))
  \/ /\ pc = "idle"
     /\ \E a \in Inputs("fly_ip_allocate_v4") : \E oc \in OutcomesOf(mode, "fly_ip_allocate_v4", a, ips) :
          Invoke("fly_ip_allocate_v4", a,
                 fly_ip_allocate_v4(mode, ParsedInput(mode, "fly_ip_allocate_v4", a), config, ips, oc))
  \/ /\ pc = "idle"
     /\ \E a \in Inputs("fly_ip_allocate") : \E oc \in OutcomesOf(mode, "fly_ip_allocate", a, ips) :
          Invoke("fly_ip_allocate", a,
                 fly_ip_allocate(mode, ParsedInput(mode, "fly_ip_allocate", a), config, ips, oc))
  \/ /\ pc = "idle"
     /\ \E a \in Inputs("fly_certs_list") : \E oc \in OutcomesOf(mode, "fly_certs_list", a, ips) :
          Invoke("fly_certs_list", a,
                 fly_certs_list(mode, ParsedInput(mode, "fly_certs_list", a), config, ips, oc))
  \/ /\ pc = "idle"
     /\ \E a \in Inputs("fly_certs_add") : \E oc \in OutcomesOf(mode, "fly_certs_add", a, ips) :
          Invoke("fly_certs_add", a,
                 fly_certs_add(mode, ParsedInput(mode, "fly_certs_add", a), config, ips, oc))
  \/ /\ pc = "idle"
     /\ \E a \in Inputs("fly_certs_remove") : \E oc \in OutcomesOf(mode, "fly_certs_remove", a, ips) :
          Invoke("fly_certs_remove", a,
                 fly_certs_remove(mode, ParsedInput(mode, "fly_certs_remove", a), config, ips, oc))
  \/ /\ pc = "idle"
     /\ \E a \in Inputs("router_list") : \E oc \in OutcomesOf(mode, "router_list", a, ips) :
          Invoke("router_list", a,
                 router_list(mode, ParsedInput(mode, "router_list", a), config, ips, oc))
  \/ /\ pc = "idle"
     /\ \E a \in Inputs("router_status") : \E oc \in OutcomesOf(mode, "router_status", a, ips) :
          Invoke("router_status", a,
                 router_status(mode, ParsedInput(mode, "router_status", a), config, ips, oc))
  \/ /\ pc = "idle"
     /\ \E a \in Inputs("router_deploy") : \E oc \in OutcomesOf(mode, "router_deploy", a, ips) :
          Invoke("router_deploy", a,
                 router_deploy(mode, ParsedInput(mode, "router_deploy", a), config, ips, oc))
  \/ /\ pc = "idle"
     /\ \E a \in Inputs("router_destroy") : \E oc \in OutcomesOf(mode, "router_destroy", a, ips) :
          Invoke("router_destroy", a,
                 router_destroy(mode, ParsedInput(mode, "router_destroy", a), config, ips, oc))
  \/ /\ pc = "idle"
     /\ \E a \in Inputs("router_doctor") : \E oc \in OutcomesOf(mode, "router_doctor", a, ips) :
          Invoke("router_doctor", a,
                 router_doctor(mode, ParsedInput(mode, "router_doctor", a), config, ips, oc))
  \/ /\ pc = "idle"
     /\ \E a \in Inputs("router_logs") : \E oc \in OutcomesOf(mode, "router_logs", a, ips) :
          Invoke("router_logs", a,
                 router_logs(mode, ParsedInput(mode, "router_logs", a), config, ips, oc))
  \/ Call_unregistered
  \/ Respond

Spec == Init /\ [][Next]_vars

(***************************************************************************)
(* The audit on its own: auditDeploy(app) run twice in succession, with    *)
(* nothing else touching the platform in between.                          *)
(***************************************************************************)
\* what a caller of auditDeploy gets
AuditReturn(r) == IF r.threw THEN err(r.msg) ELSE ok(<<"audit">>, r.audit.result)

\* the first run; args.first is the number of commands it ran
Audit_first ==
  /\ pc = "idle"
  /\ \E app \in AppNames, oc \in AuditOutcomes :
       \E r \in {auditDeploy(app, ips, oc)} :
         /\ pc' = "audited"
         /\ op' = "auditDeploy"
         /\ args' = [app |-> app, first |-> Len(r.cmds)]
         /\ cmds' = r.cmds
         /\ exits' = r.exits
         /\ result' = AuditReturn(r)
         /\ audit' = r.audit
         /\ pre' = ips
         /\ ips' = r.ips
         /\ UNCHANGED <<mode, config, flyToml, calls>>

\* the second run on the same app; its commands follow those of the first
Audit_second ==
  /\ pc = "audited"
  /\ \E oc \in AuditOutcomes :
       \E r \in {auditDeploy(args.app, ips, oc)} :
         /\ pc' = "audited2"
         /\ cmds' = cmds \o r.cmds
         /\ exits' = exits \o r.exits
         /\ result' = AuditReturn(r)
         /\ audit' = r.audit
         /\ ips' = r.ips
         /\ UNCHANGED <<mode, config, op, args, pre, flyToml, calls>>

NextAudit == Audit_first \/ Audit_second

SpecAudit == Init /\ [][NextAudit]_vars

(***************************************************************************)
(* Deploys from a working directory.  `fly deploy` runs in the directory   *)
(* the server was started in and reads the fly.toml it finds there.        *)
(***************************************************************************)
\* fly_deploy called in a working directory that may hold any fly.toml
Deploy_in_directory ==
  /\ pc = "idle"
  /\ \E toml \in FlyTomls :
       \E a \in {x \in Inputs("fly_deploy") : DOMAIN x \subseteq {"app", "image"}} :
         \E oc \in OutcomesOf(mode, "fly_deploy", a, ips) :
           InvokeIn(toml, "fly_deploy", a,
                    fly_deploy(mode, ParsedInput(mode, "fly_deploy", a), config, ips, oc))

NextPreflight == Deploy_in_directory \/ Respond

SpecPreflight == Init /\ [][NextPreflight]_vars

(***************************************************************************)
(* Overlapping calls.  The registerTool callback and every handler are     *)
(* async functions, and exec awaits the exit of the `fly` subprocess       *)
(* (exec.ts: `await cmd.output()`); the callback takes no lock and keeps   *)
(* no queue.  A callback invoked for a second request while the first is   *)
(* suspended at an await runs between the commands of the first.  A step   *)
(* here is the code of one handler from one await to the next; a client    *)
(* may send its second request at any time.                                *)
(***************************************************************************)
\* the calls that overlap here: deploys of my-app and releases of its addresses
OverlapInputs ==
  {[tool |-> "fly_deploy", input |-> [app |-> "my-app"]]}
  \cup {[tool |-> "fly_ip_release", input |-> [app |-> "my-app", address |-> AddrText[x]]] :
          x \in Addrs}

\* what `fly deploy` attaches in these runs
OverlapAttached == {{}} \cup {{x} : x \in Addrs}

InFlight(r) == calls[r].at \notin {"free", "returned"}

\* the command is appended to the log of the server's commands; ran holds
\* the positions of the commands of one call
Issue(c, success) ==
  /\ cmds' = Append(cmds, c)
  /\ exits' = Append(exits, success)

Position == Len(cmds) + 1

\* the callback is invoked for request r of a registered tool
Accept(r) ==
  /\ calls[r].at = "free"
  /\ \E c \in OverlapInputs :
       /\ c.tool \in buildTools(mode) /\ c.tool \in createHandlers(mode)
       /\ calls' = [calls EXCEPT ![r].at = "accepted", ![r].tool = c.tool,
                                  ![r].input = c.input]
  /\ UNCHANGED <<mode, config, ips, pc, op, args, cmds, exits, result, audit, pre, flyToml>>

\* fly_ip_release up to its return: guard, one command
Release_run(r) ==
  /\ calls[r].at = "accepted" /\ calls[r].tool = "fly_ip_release"
  /\ ~guardThrows(mode, calls[r].input.app)
  /\ \E success \in BOOLEAN :
       LET c == IpsReleaseCmd(calls[r].input.address, calls[r].input.app) IN
         /\ Issue(c, success)
         /\ ips' = IF success THEN AfterRelease(ips, c) ELSE ips
         /\ calls' = [calls EXCEPT ![r].at = "returned", ![r].ran = @ \cup {Position},
                                    ![r].isError = ~success]
  /\ UNCHANGED <<mode, config, pc, op, args, result, audit, pre, flyToml>>

\* fly_deploy_safe / fly_deploy_unsafe up to the exit of `fly deploy`
Deploy_run(r) ==
  /\ calls[r].at = "accepted" /\ calls[r].tool = "fly_deploy"
  /\ ~guardThrows(mode, calls[r].input.app)
  /\ \E success \in BOOLEAN : \E attached \in IF success THEN OverlapAttached ELSE {{}} :
       LET c == IF mode = "safe" THEN DeploySafeCmd(calls[r].input)
                ELSE DeployUnsafeCmd(calls[r].input) IN
         /\ Issue(c, success)
         /\ ips' = AfterDeploy(ips, c, attached)
         /\ calls' = [calls EXCEPT ![r].at = IF success /\ mode = "safe" THEN "deployed"
                                              ELSE "returned",
                                    ![r].ran = @ \cup {Position},
                                    ![r].isError = ~success]
  /\ UNCHANGED <<mode, config, pc, op, args, result, audit, pre, flyToml>>

\* auditDeploy up to the decoded answer of `ips list`
Audit_list(r) ==
  /\ calls[r].at = "deployed"
  /\ \E out \in {"ok", "fail"} :
       /\ Issue(IpsListCmd(calls[r].input.app), out = "ok")
       /\ calls' = [calls EXCEPT
            ![r].at = IF out = "ok" THEN "listed" ELSE "returned",
            ![r].ran = @ \cup {Position},
            ![r].isError = out # "ok",
            ![r].list = FlyIpList(ips[calls[r].input.app]),
            ![r].k = 1,
            ![r].public_ips_released = 0]
  /\ UNCHANGED <<mode, config, ips, pc, op, args, result, audit, pre, flyToml>>

\* the index of the next entry of the list, from k on, that is not Flycast
NextPublic(list, k) ==
  IF \E j \in k..Len(list) : ~IsFlycast(list[j])
  THEN CHOOSE j \in k..Len(list) :
         ~IsFlycast(list[j]) /\ \A h \in k..(j - 1) : IsFlycast(list[h])
  ELSE Len(list) + 1

\* the loop of phase 1 up to the exit of the next `ips release`
Audit_release(r) ==
  /\ calls[r].at = "listed"
  /\ NextPublic(calls[r].list, calls[r].k) <= Len(calls[r].list)
  /\ \E success \in BOOLEAN :
       LET j == NextPublic(calls[r].list, calls[r].k)
           c == IpsReleaseCmd(calls[r].list[j].Address, calls[r].input.app)
       IN /\ Issue(c, success)
          /\ ips' = IF success THEN AfterRelease(ips, c) ELSE ips
          /\ calls' = [calls EXCEPT ![r].k = j + 1, ![r].ran = @ \cup {Position},
                                     ![r].public_ips_released = @ + 1]
  /\ UNCHANGED <<mode, config, pc, op, args, result, audit, pre, flyToml>>

\* the rest of the loop, `config show`, and the return of fly_deploy_safe
Audit_config(r) ==
  /\ calls[r].at = "listed"
  /\ NextPublic(calls[r].list, calls[r].k) > Len(calls[r].list)
  /\ \E success \in BOOLEAN :
       /\ Issue(ConfigShowCmd(calls[r].input.app), success)
       /\ calls' = [calls EXCEPT
            ![r].at = "returned", ![r].ran = @ \cup {Position},
            ![r].k = Len(calls[r].list) + 1,
            ![r].isError = DeployExposed([public_ips_released |-> calls[r].public_ips_released])]
  /\ UNCHANGED <<mode, config, ips, pc, op, args, result, audit, pre, flyToml>>

InitOverlap == Init /\ config = NoConfig

NextOverlap ==
  \E r \in Requests :
    \/ Accept(r)
    \/ Release_run(r)
    \/ Deploy_run(r)
    \/ Audit_list(r)
    \/ Audit_release(r)
    \/ Audit_config(r)

SpecOverlap == InitOverlap /\ [][NextOverlap]_vars

(***************************************************************************)
(* Properties                                                              *)
(***************************************************************************)
Done == pc = "done"

\* options of the fly CLI that take the next argument as their value
ValueFlags ==
  {"-a", "--image", "--dockerfile", "--primary-region", "--strategy", "-e",
   "--build-arg", "--network", "--region", "--org", "--size", "--vm-memory",
   "--process-group", "--machine"}

RECURSIVE FlagsFrom(_, _)
\* the arguments of a command that the CLI reads as arguments in their own
\* right, not as the value of the option before them
FlagsFrom(cmd, k) ==
  IF k > Len(cmd) THEN {}
  ELSE IF cmd[k] \in ValueFlags THEN FlagsFrom(cmd, k + 2)
  ELSE {cmd[k]} \cup FlagsFrom(cmd, k + 1)

Flags(cmd) == FlagsFrom(cmd, 1)

\* the value a command gives to a value-taking option, "" when not given
ValueOf(cmd, flag) ==
  IF \E k \in 1..(Len(cmd) - 1) : cmd[k] = flag
  THEN cmd[(CHOOSE k \in 1..(Len(cmd) - 1) : cmd[k] = flag) + 1]
  ELSE ""

SafeDeploy == Done /\ mode = "safe" /\ op = "fly_deploy"

\* C1: a safe-mode deploy command carries --no-public-ips and --flycast; an
\* unsafe-mode deploy command carries --no-public-ips only when the caller set
\* no_public_ips and --flycast only when the caller set flycast.
C1_DeployFlags ==
  (Done /\ op = "fly_deploy" /\ cmds # <<>>) =>
    IF mode = "safe"
    THEN {"--no-public-ips", "--flycast"} \subseteq Flags(cmds[1])
    ELSE /\ "--no-public-ips" \in Flags(cmds[1]) => TruthyBool(args, "no_public_ips")
         /\ "--flycast" \in Flags(cmds[1]) => TruthyBool(args, "flycast")

C1_Witness ==
  /\ SafeDeploy /\ cmds # <<>> /\ exits[1]
  /\ Has(args, "image")
  /\ {"--no-public-ips", "--flycast"} \subseteq Flags(cmds[1])

\* a command that allocates a public address or manages certificates
IsPublicCommand(cmd) ==
  /\ Len(cmd) >= 2
  /\ \/ cmd[1] = "ips" /\ cmd[2] \in {"allocate-v4", "allocate"}
     \/ cmd[1] = "ips" /\ cmd[2] = "allocate-v6" /\ "--private" \notin Flags(cmd)
     \/ cmd[1] = "certs"

\* C2: in safe mode no executed command is `ips allocate-v4`, `ips allocate`,
\* `certs ...`, or an `ips allocate-v6` without --private.
C2_NothingPublic ==
  mode = "safe" => \A k \in 1..Len(cmds) : ~IsPublicCommand(cmds[k])

C2_Witness ==
  /\ Done /\ mode = "safe" /\ op = "fly_ip_allocate_flycast"
  /\ cmds # <<>> /\ exits[1]
  /\ cmds[1][2] = "allocate-v6" /\ "--private" \in Flags(cmds[1])

\* C3: a safe-mode deploy returns success only when the audit decoded the
\* address list and every listed address is of type private_v6.
C3_SuccessMeansPrivate ==
  (SafeDeploy /\ ~result.isError) =>
    /\ audit.returned
    /\ \A k \in 1..Len(audit.list) : audit.list[k].Type = "private_v6"

C3_Witness ==
  /\ SafeDeploy /\ ~result.isError
  /\ audit.returned /\ Len(audit.list) >= 1
  /\ pre[args.app] # ips[args.app]

\* the listed addresses that are not bound to the app any more
ActuallyReleased ==
  {k \in 1..Len(audit.list) : AddrOfText(audit.list[k].Address) \notin ips[args.app]}

IsExposureError == result.isError /\ result.text[1] = ExposureMsg(0)[1]

\* C4: when the audit of a safe-mode deploy released N > 0 addresses, the deploy
\* reports failure and public_ips_released is N, the number actually released.
C4_ReleasedCountIsActual ==
  (SafeDeploy /\ audit.returned /\ Cardinality(ActuallyReleased) > 0) =>
    /\ IsExposureError
    /\ audit.result.public_ips_released = Cardinality(ActuallyReleased)

\* the public addresses the audit found listed
ListedPublic == {k \in 1..Len(audit.list) : audit.list[k].Type # "private_v6"}

\* C5: when the platform attached one public IPv4 address, then after the
\* audit the address is not bound to the app, public_ips_released is 1 and the
\* deploy returns the exposure error.
C5_AttachedV4Released ==
  (/\ SafeDeploy /\ audit.returned
   /\ Cardinality(ListedPublic) = 1
   /\ \A k \in ListedPublic : audit.list[k].Type = "v4") =>
    /\ \A k \in ListedPublic : AddrOfText(audit.list[k].Address) \notin ips[args.app]
    /\ audit.result.public_ips_released = 1
    /\ IsExposureError

\* the second run of the audit has returned, after a first run that returned
AuditedTwice ==
  /\ pc = "audited2"
  /\ audit.returned
  /\ cmds[args.first] = ConfigShowCmd(args.app)

\* the release commands of the first run
FirstReleases == {k \in 1..args.first : cmds[k][1] = "ips" /\ cmds[k][2] = "release"}

C7_AuditAfterDeploy ==
  /\ (SafeDeploy /\ cmds # <<>> /\ exits[1]) =>
       /\ audit.ran
       /\ Len(cmds) >= 2 /\ cmds[2] = IpsListCmd(args.app)
       /\ audit.decoded =>
            /\ Len(cmds) = 3 + Cardinality(ListedPublic)
            /\ cmds[Len(cmds)] = ConfigShowCmd(args.app)
            /\ \A k \in 3..(Len(cmds) - 1) :
                 /\ cmds[k][1] = "ips" /\ cmds[k][2] = "release"
                 /\ AppOf(cmds[k]) = args.app
  /\ mode = "unsafe" =>
       /\ ~audit.ran
       /\ op = "fly_deploy" => Len(cmds) <= 1
       /\ \A k \in 1..Len(cmds) :
            (cmds[k][1] = "ips" /\ cmds[k][2] = "release") => op = "fly_ip_release"

C7_Witness ==
  /\ SafeDeploy /\ audit.returned
  /\ Len(cmds) = 4 /\ cmds[3][2] = "release" /\ cmds[4][1] = "config"

\* C8: a safe-mode fly_ip_allocate_flycast call without `network` is rejected
\* and runs no command; any command it runs has --private and a --network
\* whose value is not empty.
C8_FlycastNetwork ==
  (Done /\ mode = "safe" /\ op = "fly_ip_allocate_flycast") =>
    /\ ~Has(args, "network") => (result.isError /\ cmds = <<>>)
    /\ \A k \in 1..Len(cmds) :
         /\ "--private" \in Flags(cmds[k])
         /\ ValueOf(cmds[k], "--network") # ""

\* the subcommands each tool can run
AllowList(name) ==
  CASE name = "fly_auth_status" -> {<<"auth", "whoami">>}
    [] name = "fly_app_status" -> {<<"status">>}
    [] name \in {"fly_app_list", "router_list"} -> {<<"apps", "list">>}
    [] name = "fly_app_create" -> {<<"apps", "create">>}
    [] name = "fly_app_destroy" -> {<<"apps", "destroy">>}
    [] name = "fly_machine_list" -> {<<"machines", "list">>}
    [] name = "fly_machine_start" -> {<<"machines", "start">>}
    [] name = "fly_machine_stop" -> {<<"machines", "stop">>}
    [] name = "fly_machine_destroy" -> {<<"machines", "destroy">>}
    [] name = "fly_machine_exec" -> {<<"machine", "exec">>}
    [] name = "fly_ip_list" -> {<<"ips", "list">>}
    [] name = "fly_ip_release" -> {<<"ips", "release">>}
    [] name = "fly_secrets_list" -> {<<"secrets", "list">>}
    [] name = "fly_secrets_set" -> {<<"secrets", "set">>}
    [] name = "fly_secrets_unset" -> {<<"secrets", "unset">>}
    [] name = "fly_scale_show" -> {<<"scale", "show">>}
    [] name = "fly_scale_count" -> {<<"scale", "count">>}
    [] name = "fly_scale_vm" -> {<<"scale", "vm">>}
    [] name = "fly_volumes_list" -> {<<"volumes", "list">>}
    [] name = "fly_volumes_create" -> {<<"volumes", "create">>}
    [] name = "fly_volumes_destroy" -> {<<"volumes", "destroy">>}
    [] name = "fly_config_show" -> {<<"config", "show">>}
    [] name = "fly_logs" -> {<<"logs">>}
    [] name = "fly_deploy" ->
         {<<"deploy">>, <<"ips", "list">>, <<"ips", "release">>, <<"config", "show">>}
    [] name \in {"fly_ip_allocate_flycast", "fly_ip_allocate_v6"} -> {<<"ips", "allocate-v6">>}
    [] name = "fly_ip_allocate_v4" -> {<<"ips", "allocate-v4">>}
    [] name = "fly_ip_allocate" -> {<<"ips", "allocate">>}
    [] name = "fly_certs_list" -> {<<"certs", "list">>}
    [] name = "fly_certs_add" -> {<<"certs", "add">>}
    [] name = "fly_certs_remove" -> {<<"certs", "remove">>}
    [] name = "router_status" -> {<<"apps", "list">>, <<"machines", "list">>}
    [] name = "router_logs" -> {<<"apps", "list">>, <<"logs">>}
    [] OTHER -> {}

IsPrefix(b, cmd) == Len(b) <= Len(cmd) /\ SubSeq(cmd, 1, Len(b)) = b

\* C9: a call of a name outside the mode's registered tools fails and runs no
\* command, and every command a call runs starts with a subcommand from the
\* fixed list of its tool.
C9_AllowListed ==
  Done =>
    /\ op \notin buildTools(mode) => (result.isError /\ cmds = <<>> /\ ips = pre)
    /\ \A k \in 1..Len(cmds) : \E b \in AllowList(op) : IsPrefix(b, cmds[k])

C9_Witness ==
  /\ Done /\ mode = "safe" /\ op = "fly_ip_allocate_v4"
  /\ result.isError /\ cmds = <<>>

\* the flag blocklist of the design: explicit port exposure
FlagBlocklist == {"--port", "-p"}

\* C10: a call whose input carries a blocklisted flag fails and runs no command.
C10_ForbiddenFlagRejected ==
  (/\ Done /\ op = "fly_machine_exec" /\ Has(args, "command")
   /\ Range(args.command) \cap FlagBlocklist # {}) =>
    (result.isError /\ cmds = <<>>)

\* the call reached the handler of a registered tool with an input its
\* inputSchema accepts
Handled == Done /\ op \in buildTools(mode) /\ ValidInput(mode, op, args)

IsProtectedError == result.isError /\ result.text = GuardMsg

\* C11: a safe-mode call of a tool that takes `app` ends in the protected-app
\* error exactly when the app name starts with the reserved prefix, and then
\* it has run no command and changed nothing; in unsafe mode the guard never
\* fails.
C11_GuardFirst ==
  (Handled /\ Has(args, "app")) =>
    IF mode = "safe"
    THEN /\ IsProtectedError <=> startsWith(args.app, AmbitPrefix)
         /\ startsWith(args.app, AmbitPrefix) => (cmds = <<>> /\ ips = pre)
    ELSE ~IsProtectedError

C11_Witness ==
  /\ Handled /\ mode = "safe" /\ op = "fly_machine_exec"
  /\ args.app = "ambit-router"
  /\ IsProtectedError /\ cmds = <<>>

\* a command that only reads from the platform
ReadOnlyCommand(cmd) ==
  \/ cmd[1] \in {"auth", "status", "logs"}
  \/ Len(cmd) >= 2 /\ cmd[2] \in {"list", "show"}

\* the apps a command names: the positional name of `apps create|destroy`, or
\* the value of -a
TargetApps(cmd) ==
  IF cmd[1] = "apps" /\ cmd[2] \in {"create", "destroy"} THEN {cmd[3]}
  ELSE IF "-a" \in Range(cmd) THEN {AppOf(cmd)} ELSE {}

\* C12: in safe mode no command that mutates or destroys names an app with
\* the reserved prefix, `apps create` included.
C12_ReservedUntouched ==
  mode = "safe" =>
    \A k \in 1..Len(cmds) :
      ~ReadOnlyCommand(cmds[k]) =>
        \A n \in TargetApps(cmds[k]) : ~startsWith(n, AmbitPrefix)

\* C13: fly_volumes_destroy runs `volumes destroy` only when confirm equals
\* volume_id character for character; on a mismatch it runs no command and
\* returns an error, which is the confirmation error whenever the protected-app
\* guard has let the call through.
C13_ConfirmExact ==
  (Handled /\ op = "fly_volumes_destroy") =>
    /\ cmds # <<>> => (args.confirm = args.volume_id /\ cmds = <<VolumesDestroyCmd(args)>>)
    /\ args.confirm # args.volume_id =>
         /\ result.isError /\ cmds = <<>>
         /\ ~guardThrows(mode, args.app) => result.text = <<"Confirmation failed">>

C13_Witness ==
  /\ Handled /\ op = "fly_volumes_destroy"
  /\ args.volume_id = "vol_123" /\ args.confirm = "vol_123 "
  /\ result.isError /\ result.text = <<"Confirmation failed">> /\ cmds = <<>>

\* C14: fly_app_destroy runs `apps destroy` only when the caller supplied a
\* confirmation equal to the app name.
C14_AppDestroyConfirmed ==
  (Handled /\ op = "fly_app_destroy" /\ cmds # <<>>) =>
    (Has(args, "confirm") /\ args.confirm = args.app)

OtherMode == IF mode = "safe" THEN "unsafe" ELSE "safe"

\* the names that the mode-conditional builders produce in both modes
Templated ==
  UNION {appListTool(m) \cup appCreateTool(m) \cup appDestroyTool(m) \cup deployTool(m) :
           m \in Modes}
  \ (ipAllocateTools("safe") \cup ipAllocateTools("unsafe"))

SafeOnlyNames ==
  {"router_list", "router_status", "router_deploy", "router_destroy", "router_doctor",
   "router_logs", "fly_ip_allocate_flycast"}

UnsafeOnlyNames ==
  {"fly_ip_allocate_v4", "fly_ip_allocate_v6", "fly_ip_allocate", "fly_certs_list",
   "fly_certs_add", "fly_certs_remove"}

\* C15: a name registered in this mode and in the other one is a common or a
\* templated tool and has the same annotations in both; the safe-only names
\* are registered in safe mode and not in unsafe mode, the unsafe-only names
\* in unsafe mode and not in safe mode.
C15_ModeSurfaces ==
  /\ \A n \in buildTools(mode) \cap buildTools(OtherMode) :
       /\ n \in common \cup Templated
       /\ annotations(mode, n) = annotations(OtherMode, n)
  /\ common \cup Templated \subseteq buildTools(mode)
  /\ SafeOnlyNames \subseteq buildTools("safe") /\ SafeOnlyNames \cap buildTools("unsafe") = {}
  /\ UnsafeOnlyNames \subseteq buildTools("unsafe") /\ UnsafeOnlyNames \cap buildTools("safe") = {}
  /\ (Done /\ op \in buildTools(mode) \cap buildTools(OtherMode)) =>
       annotations(mode, op) = annotations(OtherMode, op)

C15_Witness ==
  /\ Handled /\ mode = "unsafe" /\ op = "fly_deploy" /\ ~result.isError
  /\ op \in buildTools("safe")
  /\ annotations("safe", op) = annotations("unsafe", op)

\* C16: the handler map of the mode has exactly the registered names as keys,
\* so no registered call is answered "no handler registered", and it has no
\* key for a tool that only the other mode registers.
C16_HandlerPerTool ==
  /\ createHandlers(mode) = buildTools(mode)
  /\ createHandlers(mode) \cap (buildTools(OtherMode) \ buildTools(mode)) = {}
  /\ Handled => ~(result.isError /\ result.text = <<"no handler registered">>)

C16_Witness ==
  /\ Handled /\ mode = "safe" /\ op = "fly_ip_allocate_flycast"
  /\ cmds # <<>> /\ ~result.isError

CreateCall == Done /\ op = "fly_app_create" /\ op \in buildTools(mode)

\* the unsafe-mode half of C17: `network` is optional, and the command carries
\* --network exactly when the caller gave a non-empty one
UnsafeCreateOptional ==
  (CreateCall /\ mode = "unsafe") =>
    /\ "network" \in OptionalInputs(mode, op)
    /\ Has(args, "name") => cmds # <<>>
    /\ cmds # <<>> =>
         ValueOf(cmds[1], "--network") = (IF Has(args, "network") THEN args.network ELSE "")

\* C17 as stated: fly_app_create is registered in both modes; in safe mode a
\* call without `network` is rejected and a command carries the caller's
\* network; in unsafe mode `network` is optional.
C17_NetworkRequiredInSafe ==
  /\ "fly_app_create" \in buildTools(mode)
  /\ (CreateCall /\ mode = "safe") =>
       /\ "network" \in RequiredInputs(mode, op)
       /\ ~Has(args, "network") => (result.isError /\ cmds = <<>>)
       /\ (cmds # <<>> /\ Has(args, "network")) =>
            ValueOf(cmds[1], "--network") = args.network
  /\ UnsafeCreateOptional

\* C17: fly_app_create is registered in both modes; in safe mode the input
\* contract has no `network` field, a call is accepted without one, and every
\* command it runs carries --network with the configured network whatever the
\* caller sent (no command runs when none is configured); in unsafe mode
\* `network` is optional.
C17_CreateNetworkContract ==
  /\ "fly_app_create" \in buildTools(mode)
  /\ (CreateCall /\ mode = "safe") =>
       /\ "network" \notin RequiredInputs(mode, op) \cup OptionalInputs(mode, op)
       /\ ValidInput(mode, op, args) <=> Has(args, "name")
       /\ cmds # <<>> =>
            /\ Truthy(getDefaultNetwork(config))
            /\ ValueOf(cmds[1], "--network") = getDefaultNetwork(config)
       /\ (ValidInput(mode, op, args) /\ ~Truthy(getDefaultNetwork(config))) =>
            (result.isError /\ cmds = <<>>)
       /\ ~result.isError => result.data.network = getDefaultNetwork(config)
  /\ UnsafeCreateOptional

C17_Witness ==
  /\ CreateCall /\ mode = "safe" /\ cmds # <<>>
  /\ Has(args, "network") /\ args.network = "infra"
  /\ ValueOf(cmds[1], "--network") = "browsers"

\* a declared type that lets the field be absent
IsOptional(t) ==
  t \in {"z.string().optional()", "z.number().optional()",
         "z.string().nullable().optional()", "z.record().optional()"}

\* a value of a leaf field has its declared type: null only where the type
\* is nullable, undefined only where it is optional
ValueOk(t, v) ==
  CASE t \in {"z.string()", "z.string().optional()"} ->
         v # null /\ (v = undefined => IsOptional(t))
    [] t = "z.string().nullable().optional()" -> TRUE
    [] t \in {"z.number()", "z.number().optional()"} -> v # JsonNull
    [] OTHER -> TRUE

RECURSIVE Conforms(_, _)
\* schema.parse(data) succeeds
Conforms(schema, data) ==
  \A f \in DOMAIN schema.fields :
    LET t == schema.fields[f] IN
    IF f \notin DOMAIN data THEN IsOptional(t)
    ELSE CASE t = "z.array(z.object)" ->
                \A k \in 1..Len(data[f]) : Conforms(schema.nested[f], data[f][k])
           [] t = "z.object" -> Conforms(schema.nested[f], data[f])
           [] OTHER -> ValueOk(t, data[f])

\* C18: the payload of every success result conforms to the outputSchema of
\* its tool: required fields are present and no field is null or undefined
\* where its declared type does not allow it.
C18_OutputConforms ==
  (Handled /\ ~result.isError) => Conforms(outputSchema(mode, op), result.data)

\* C19: a call in which some command exited nonzero returns an error result.
C19_NonzeroExitFails ==
  (Done /\ \E k \in 1..Len(exits) : ~exits[k]) => result.isError

\* C20: no success result carries raw stdout text in place of a decoded
\* address.
C20_NoCoercedOutput ==
  (Handled /\ ~result.isError) =>
    /\ op \in {"fly_ip_allocate_flycast", "fly_ip_allocate_v6", "fly_ip_allocate_v4"} =>
         result.data.address # RawStdout
    /\ op = "fly_ip_allocate" =>
         \A k \in 1..Len(result.data.ips) : result.data.ips[k].address # RawStdout

\* a safe-mode deploy that reached its handler and passed the guard
SafeDeployRun == SafeDeploy /\ Handled /\ ~guardThrows(mode, args.app)

\* the scan rejects the fly.toml that the working directory holds
PreflightRejects == flyToml.found /\ ~scanFlyToml(flyToml.toml).ok

\* C21: in safe mode, a deploy from a working directory whose fly.toml the
\* pre-flight scan rejects (force_https, or a port 443 entry with a TLS
\* handler) is aborted with an error before any platform command runs, and
\* the warnings of the scan are among the warnings of the audit result that
\* a deploy returns
C21_PreflightAborts ==
  /\ (SafeDeployRun /\ PreflightRejects) => (cmds = <<>> /\ result.isError)
  /\ (SafeDeployRun /\ flyToml.found /\ audit.ran /\ audit.returned) =>
       Range(scanFlyToml(flyToml.toml).warnings) \subseteq Range(audit.result.warnings)

\* the port entries of a fly.toml with port 443 and a TLS handler
TlsEntries(toml) ==
  {e \in {<<s, q>> : s \in 1..Len(ServicesOf(toml)), q \in 1..5} :
     /\ e[2] <= Len(PortsOf(ServicesOf(toml)[e[1]]))
     /\ LET pt == PortsOf(ServicesOf(toml)[e[1]])[e[2]] IN
          /\ Has(pt, "port") /\ pt.port = 443
          /\ Has(pt, "handlers") /\ "tls" \in Range(pt.handlers)}

Count(seq, x) == Cardinality({k \in 1..Len(seq) : seq[k] = x})

\* C22: the scan of a fly.toml reports one error per port entry with port 443
\* and a TLS handler, one error when force_https is true, is ok exactly when
\* it reports no error, and carries exactly one warning when the file has a
\* services block and none otherwise
C22_ScanResult ==
  (Done /\ flyToml.found) =>
    LET toml == flyToml.toml
        r == scanFlyToml(toml)
    IN /\ Count(r.errors, ServicesError) = Cardinality(TlsEntries(toml))
       /\ Count(r.errors, ForceHttpsError) = (IF forceHttps(toml) THEN 1 ELSE 0)
       /\ Len(r.errors) = Cardinality(TlsEntries(toml)) + (IF forceHttps(toml) THEN 1 ELSE 0)
       /\ r.ok <=> (TlsEntries(toml) = {} /\ ~forceHttps(toml))
       /\ Len(r.warnings) = (IF Len(ServicesOf(toml)) > 0 THEN 1 ELSE 0)

\* a fly.toml with one port 443 TLS entry: not ok, one error, one warning
C22_Witness ==
  /\ Done /\ flyToml.found
  /\ Cardinality(TlsEntries(flyToml.toml)) = 1 /\ ~forceHttps(flyToml.toml)
  /\ scanFlyToml(flyToml.toml) =
       [ok |-> FALSE, errors |-> <<ServicesError>>, warnings |-> <<ServicesWarning>>]

\* the two shapes of a CallToolResult: ok(text, data) and err(text)
IsSuccessPayload == ~result.isError /\ Has(result, "data") /\ Has(result, "text")

IsStructuredError == result.isError /\ Has(result, "text") /\ ~Has(result, "data")

\* C23: every call, in either mode and whatever its commands did, ends with
\* a success payload or a structured error result, and a call in which a
\* command failed ends with the error result, never with a success payload
C23_StructuredOutcome ==
  Done =>
    /\ IsSuccessPayload \/ IsStructuredError
    /\ IsSuccessPayload => \A k \in 1..Len(exits) : exits[k]

\* the `ips release` commands of the call, in order
ReleaseCmds == SelectSeq(cmds, LAMBDA c : c[1] = "ips" /\ c[2] = "release")

\* the entries of flycast_allocations that record address x
AllocationsOf(x) ==
  {j \in 1..Len(audit.result.flycast_allocations) :
     audit.result.flycast_allocations[j].address = x}

\* the release commands that name address x
ReleasesOf(x) == {j \in 1..Len(ReleaseCmds) : x \in Range(ReleaseCmds[j])}

\* C24: phase 1 of the audit handles every listed address exactly once: a
\* private_v6 address is recorded once in flycast_allocations with its
\* address and network and is never released; any other address is the
\* target of exactly one `ips release <address> -a <app>` and is counted in
\* public_ips_released; the two together account for the whole list
C24_PhaseOnePartition ==
  (SafeDeploy /\ audit.returned) =>
    /\ \A k \in 1..Len(audit.list) :
         LET ip == audit.list[k] IN
           IF ip.Type = "private_v6"
           THEN /\ Cardinality(AllocationsOf(ip.Address)) = 1
                /\ \A j \in AllocationsOf(ip.Address) :
                     audit.result.flycast_allocations[j].network =
                       (IF ip.Network \in {undefined, null, ""} THEN "default" ELSE ip.Network)
                /\ ReleasesOf(ip.Address) = {}
           ELSE /\ AllocationsOf(ip.Address) = {}
                /\ Cardinality(ReleasesOf(ip.Address)) = 1
                /\ \A j \in ReleasesOf(ip.Address) :
                     ReleaseCmds[j] = <<"ips", "release", ip.Address, "-a", args.app, "--yes">>
    /\ audit.result.public_ips_released = Len(ReleaseCmds)
    /\ audit.result.public_ips_released = Cardinality(ListedPublic)
    /\ Len(audit.result.flycast_allocations) + audit.result.public_ips_released
         = Len(audit.list)

\* an audit of a list that holds both a private and a public address
C24_Witness ==
  /\ SafeDeploy /\ audit.returned
  /\ Len(audit.result.flycast_allocations) >= 1
  /\ audit.result.public_ips_released >= 1
  /\ Len(audit.list) >= 3

TlsWarning == "Service config has TLS handler on port 443."

ForceHttpsWarning == "http_service.force_https is enabled."

NotInspectedWarning == "Could not inspect merged config."

NoFlycastWarning == "No Flycast IP allocated."

\* an audit that ran to its end in a safe-mode deploy
AuditReturned == SafeDeploy /\ audit.returned

Inspected == audit.shown.success /\ audit.shown.stdout = "json"

Interleaved(r, q) ==
  \E i \in calls[r].ran, k \in calls[r].ran : \E j \in calls[q].ran : i < j /\ j < k

\* C26: calls are handled strictly one at a time: every call runs to its
\* return, all its commands having exited, before the next one starts, so
\* the platform commands of two calls against one app are never interleaved
C26_OneAtATime ==
  \A r \in Requests : \A q \in Requests \ {r} : ~Interleaved(r, q)

\* the network of the local configuration, when it names one
ConfiguredNetwork == IF config.found /\ config.network # "" THEN config.network ELSE ""

NamesRouterApp == Handled /\ Has(args, "app") /\ startsWith(args.app, AmbitPrefix)

\* C28: in unsafe mode as in safe mode, a call that names an app with the
\* reserved ambit- prefix is rejected by the guard before any platform
\* command is issued
C28_GuardInEveryMode ==
  NamesRouterApp => (IsProtectedError /\ cmds = <<>> /\ ips = pre)

\* C28: the guard depends on the mode: in safe mode a call whose `app` input
\* has the reserved ambit- prefix is rejected before any platform command is
\* issued; in unsafe mode the guard is not applied, no call ends with the
\* guard's error, and the call runs its command on the reserved app unless
\* the confirmation of a destroy fails
C28_GuardInSafeModeOnly ==
  NamesRouterApp =>
    IF mode = "safe"
    THEN IsProtectedError /\ cmds = <<>> /\ ips = pre
    ELSE /\ ~IsProtectedError
         /\ cmds = <<>> => (result.isError /\ result.text = <<"Confirmation failed">>)
         /\ \A k \in 1..Len(cmds) : args.app \in Range(cmds[k])

\* unsafe mode: a command on the router app ran and exited 0
C28_Witness ==
  /\ NamesRouterApp /\ mode = "unsafe"
  /\ Len(cmds) = 1 /\ exits[1] /\ ~result.isError

ListedFlycast == SelectSeq(audit.list, LAMBDA ip : ip.Type = "private_v6")

\* C30: config inspection is best effort and does not change the verdict of
\* the audit: once the list is decoded the audit returns however `config
\* show` ends, with public_ips_released and flycast_allocations as phase 1
\* computed them from the list, and the deploy is an error exactly when
\* public_ips_released is above zero
C30_ConfigInspectionBestEffort ==
  (SafeDeploy /\ audit.ran /\ audit.decoded) =>
    /\ audit.returned
    /\ cmds[Len(cmds)] = ConfigShowCmd(args.app)
    /\ audit.result.public_ips_released = Cardinality(ListedPublic)
    /\ Len(audit.result.flycast_allocations) = Len(ListedFlycast)
    /\ \A k \in 1..Len(ListedFlycast) :
         audit.result.flycast_allocations[k].address = ListedFlycast[k].Address
    /\ result.isError <=> audit.result.public_ips_released > 0
    /\ ~result.isError => result.data.audit = audit.result

\* `config show` exits nonzero and the deploy is still reported as clean
C30_Witness ==
  /\ SafeDeploy /\ audit.returned
  /\ ~audit.shown.success /\ ~exits[Len(exits)]
  /\ forceHttps(audit.shown.merged)
  /\ ~result.isError /\ result.data.audit.public_ips_released = 0
  /\ Len(result.data.audit.flycast_allocations) = 1

====
